---- MODULE Spec2Model ----
(***************************************************************************)
(* Versal power-management SMC service (EL3): the top-level SMC handler,   *)
(* the PM API functions behind it, the SGI registration, the shutdown      *)
(* scope, the service setup and the IPI callback interrupt handler.        *)
(*                                                                         *)
(* 32-bit words are integers; the word 0xFFFFFFFF is written -1.  A 64-bit *)
(* register is the pair <<low half, high half>>.                           *)
(***************************************************************************)
EXTENDS Integers, Sequences, FiniteSets, TLC

VARIABLES
    pm_up,              \* static bool pm_up
    sgi,                \* static unsigned int sgi
    pm_shutdown_scope,  \* static unsigned int pm_shutdown_scope
    ipi_irq,            \* the mailbox callback interrupt is pending
    callb,              \* the callback payload in the mailbox response buffer
    phase,              \* "boot", "run" (at the lower EL), "ret" (leaving EL3)
    last,               \* the operation EL3 has just run, while phase = "ret"
    scope_req,          \* the subtype of the latest set-scope-only request
    mc                  \* per core: where it is inside pm_register_sgi

vars == <<pm_up, sgi, pm_shutdown_scope, ipi_irq, callb, phase, last,
          scope_req, mc>>

(***************************************************************************)
(* Bounds of the model.                                                    *)
(***************************************************************************)
\* shutdown subtypes (scopes) tried: 0..MaxSubtype
MaxSubtype == 2
\* shutdown types tried: 0..MaxType
MaxType == 2
\* firmware feature-check versions tried: 0..MaxFwVersion
MaxFwVersion == 4

(***************************************************************************)
(* Program constants.                                                      *)
(***************************************************************************)
INVALID_SGI == 255
PM_INIT_SUSPEND_CB == 30
PM_NOTIFY_CB == 32
LIBPM_MODULE_ID == 2
LOADER_MODULE_ID == 7
MODULE_ID_MASK == 65280
\* the 0xFF of PM_PACK_PAYLOAD1
BYTE_MASK == 255
GICV3_MAX_SGI_TARGETS == 16
PLATFORM_CORE_COUNT == 2
XPM_SHUTDOWN_TYPE_SETSCOPE_ONLY == 2
XPM_SHUTDOWN_SUBTYPE_RST_SYSTEM == 2
FUNCID_NUM_MASK == 65535
EBUSY == 16
EINVAL == 22
SECURE_FLAG == 0
NON_SECURE_FLAG == 1
IPI_BLOCKING == 1

\* enum pm_ret_status
PM_RET_SUCCESS == 0
PM_RET_ERROR_ARGS == 1
PM_RET_ERROR_NOTSUPPORTED == 4
PM_RET_ERROR_INTERNAL == 2000
PM_RET_ERROR_TIMEOUT == 2006

\* PM API ids
PM_GET_API_VERSION == 1
PM_GET_DEVICE_STATUS == 3
PM_GET_OP_CHARACTERISTIC == 4
PM_REGISTER_NOTIFIER == 5
PM_REQ_SUSPEND == 6
PM_SELF_SUSPEND == 7
PM_FORCE_POWERDOWN == 8
PM_ABORT_SUSPEND == 9
PM_REQ_WAKEUP == 10
PM_SET_WAKEUP_SOURCE == 11
PM_SYSTEM_SHUTDOWN == 12
PM_REQUEST_DEVICE == 13
PM_RELEASE_DEVICE == 14
PM_SET_REQUIREMENT == 15
PM_SET_MAX_LATENCY == 16
PM_RESET_ASSERT == 17
PM_RESET_GET_STATUS == 18
PM_INIT_FINALIZE == 21
PM_GET_CHIPID == 24
PM_PINCTRL_REQUEST == 28
PM_PINCTRL_RELEASE == 29
PM_PINCTRL_GET_FUNCTION == 30
PM_PINCTRL_SET_FUNCTION == 31
PM_PINCTRL_CONFIG_PARAM_GET == 32
PM_PINCTRL_CONFIG_PARAM_SET == 33
PM_IOCTL == 34
PM_QUERY_DATA == 35
PM_CLOCK_ENABLE == 36
PM_CLOCK_DISABLE == 37
PM_CLOCK_GETSTATE == 38
PM_CLOCK_SETDIVIDER == 39
PM_CLOCK_GETDIVIDER == 40
PM_CLOCK_GETRATE == 42
PM_CLOCK_SETPARENT == 43
PM_CLOCK_GETPARENT == 44
PM_PLL_SET_PARAMETER == 48
PM_PLL_GET_PARAMETER == 49
PM_PLL_SET_MODE == 50
PM_PLL_GET_MODE == 51
PM_FEATURE_CHECK == 63
PM_LOAD_PDI == 1793
PM_GET_CALLBACK_DATA == 2561
PM_GET_TRUSTZONE_VERSION == 2563

PM_API_BASE_VERSION == 1
PM_API_QUERY_DATA_VERSION == 2
VERSAL_TZ_VERSION == 65536

\* query ids and ioctl ids
XPM_QID_CLOCK_GET_NAME == 1
XPM_QID_PINCTRL_GET_FUNCTION_NAME == 8
IOCTL_SET_PLL_FRAC_MODE == 8
IOCTL_GET_PLL_FRAC_MODE == 9
IOCTL_SET_PLL_FRAC_DATA == 10
IOCTL_GET_PLL_FRAC_DATA == 11
IOCTL_SET_SGI == 25
PM_PLL_PARAM_DATA == 2

\* notification and device ids used by pm_setup and ipi_fiq_handler
EVENT_CPU_IDLE_FORCE_PWRDWN_SUBSYS == 4
XPM_DEVID_ACPU_0 == 403750915
XPM_DEVID_ACPU_1 == 403750916

\* the unknown-SMC sentinel: every bit of the return register set
SMC_UNK == <<-1, -1>>
\* a return register the handler does not write
NoReg == <<-2, -2>>
\* pm_register_sgi was not called (otherwise <<its return value>>)
NoCall == <<>>

(***************************************************************************)
(* Word arithmetic.                                                        *)
(***************************************************************************)
RECURSIVE BitOr(_, _)
\* a | b on non-negative words
BitOr(a, b) ==
    IF a = 0 THEN b
    ELSE IF b = 0 THEN a
    ELSE (IF (a % 2 = 1) \/ (b % 2 = 1) THEN 1 ELSE 0) + 2 * BitOr(a \div 2, b \div 2)

RECURSIVE BitAnd(_, _)
\* a & b on non-negative words
BitAnd(a, b) ==
    IF a = 0 \/ b = 0 THEN 0
    ELSE (IF (a % 2 = 1) /\ (b % 2 = 1) THEN 1 ELSE 0) + 2 * BitAnd(a \div 2, b \div 2)

RECURSIVE Pow2(_)
Pow2(n) == IF n = 0 THEN 1 ELSE 2 * Pow2(n - 1)

\* x << n
Shl(x, n) == x * Pow2(n)

\* x >> n
Shr(x, n) == x \div Pow2(n)

\* smc_fid & FUNCID_NUM_MASK; the function id is a 32-bit word whose top bit may
\* be set (a negative integer here), and the mask keeps its low 16 bits
FuncNum(smc_fid) == smc_fid % (FUNCID_NUM_MASK + 1)

(***************************************************************************)
(* Message codec.                                                          *)
(***************************************************************************)
\* word 0 with the module id shifted by 4, not 8
PackWord0_module_shift4(mid, flag, arg0) ==
    BitOr(BitOr(BitAnd(arg0, BYTE_MASK), Shl(mid, 4)), Shl(flag, 24))

\* PM_PACK_PAYLOAD1: word 0 of a frame
PackWord0(mid, flag, arg0) ==
    BitOr(BitOr(BitAnd(arg0, BYTE_MASK), Shl(mid, 8)), Shl(flag, 24))

\* PM_PACK_PAYLOAD2..6: word 0, then the arguments in order
Pack(mid, flag, arg0, args) == <<PackWord0(mid, flag, arg0)>> \o args

(***************************************************************************)
(* Mailbox transport, the pm_ipi functions.  A reply is what the controller *)
(* and the transport do with one request: ok is whether the send worked, st *)
(* the reply's status word (or the transport error), w reply words 1..8.   *)
(***************************************************************************)
Reply(ok, st, w) == [ok |-> ok, st |-> st, w |-> w]

\* the record of one frame handed to the transport
Sent(pl, mode, count) == [pl |-> pl, mode |-> mode, count |-> count]

\* pm_ipi_send_sync(proc, payload, value, count): the status, and the caller's
\* buffer with its first count words overwritten when the send worked
SyncBuf(buf, count, reply) ==
    IF reply.ok
    THEN [i \in 1..Len(buf) |-> IF i <= count THEN reply.w[i] ELSE buf[i]]
    ELSE buf

pm_ipi_send_sync(payload, buf, count, reply) ==
    [ret |-> reply.st, buf |-> SyncBuf(buf, count, reply),
     sent |-> <<Sent(payload, "sync", count)>>]

\* pm_ipi_send(proc, payload): fire and forget, no reply awaited
pm_ipi_send(payload, reply) ==
    [ret |-> IF reply.ok THEN PM_RET_SUCCESS ELSE reply.st, buf |-> <<>>,
     sent |-> <<Sent(payload, "send", 0)>>]

\* pm_ipi_send_non_blocking(proc, payload)
pm_ipi_send_non_blocking(payload, reply) ==
    [ret |-> IF reply.ok THEN PM_RET_SUCCESS ELSE reply.st, buf |-> <<>>,
     sent |-> <<Sent(payload, "non_blocking", 0)>>]

(***************************************************************************)
(* The result of an API function: its status, the caller's output buffer,  *)
(* the frames it sent, the process-wide state it leaves, and the return    *)
(* value of pm_register_sgi if it called it.                               *)
(***************************************************************************)
Res(ret, out, sent, s, scope, reg) ==
    [ret |-> ret, out |-> out, sent |-> sent, sgi |-> s, scope |-> scope,
     reg |-> reg]

\* an API function that is one blocking send
SyncCall(payload, buf, count, reply, s, scope) ==
    LET r == pm_ipi_send_sync(payload, buf, count, reply)
    IN  Res(r.ret, r.buf, r.sent, s, scope, NoCall)

(***************************************************************************)
(* SGI registration.                                                       *)
(***************************************************************************)
\* pm_register_sgi without the busy check: a second registration overwrites
pm_register_sgi_overwrite(sgi_num, reset, s) ==
    IF reset = 1 THEN <<0, INVALID_SGI>>
    ELSE IF sgi_num >= GICV3_MAX_SGI_TARGETS THEN <<-EINVAL, s>>
    ELSE <<0, sgi_num>>

\* pm_register_sgi checking the range before the reset argument
pm_register_sgi_range_first(sgi_num, reset, s) ==
    IF sgi_num >= GICV3_MAX_SGI_TARGETS THEN <<-EINVAL, s>>
    ELSE IF reset = 1 THEN <<0, INVALID_SGI>>
    ELSE IF s # INVALID_SGI THEN <<-EBUSY, s>>
    ELSE <<0, sgi_num>>

\* pm_register_sgi with the range check off by one (> for >=)
pm_register_sgi_off_by_one(sgi_num, reset, s) ==
    IF reset = 1 THEN <<0, INVALID_SGI>>
    ELSE IF s # INVALID_SGI THEN <<-EBUSY, s>>
    ELSE IF sgi_num > GICV3_MAX_SGI_TARGETS THEN <<-EINVAL, s>>
    ELSE <<0, sgi_num>>

\* pm_register_sgi(sgi_num, reset) in state s: <<return value, new sgi>>
pm_register_sgi(sgi_num, reset, s) ==
    IF reset = 1 THEN <<0, INVALID_SGI>>
    ELSE IF s # INVALID_SGI THEN <<-EBUSY, s>>
    ELSE IF sgi_num >= GICV3_MAX_SGI_TARGETS THEN <<-EINVAL, s>>
    ELSE <<0, sgi_num>>

(***************************************************************************)
(* API call surface (pm_api_sys.c).                                        *)
(***************************************************************************)
pm_get_shutdown_scope == pm_shutdown_scope

pm_pll_set_param(clk_id, param, value, flag, reply, s, scope) ==
    SyncCall(Pack(LIBPM_MODULE_ID, flag, PM_PLL_SET_PARAMETER,
                  <<clk_id, param, value>>), <<>>, 0, reply, s, scope)

pm_pll_get_param(clk_id, param, buf, flag, reply, s, scope) ==
    SyncCall(Pack(LIBPM_MODULE_ID, flag, PM_PLL_GET_PARAMETER,
                  <<clk_id, param>>), buf, 1, reply, s, scope)

pm_pll_set_mode(clk_id, mode, flag, reply, s, scope) ==
    SyncCall(Pack(LIBPM_MODULE_ID, flag, PM_PLL_SET_MODE, <<clk_id, mode>>),
             <<>>, 0, reply, s, scope)

pm_pll_get_mode(clk_id, buf, flag, reply, s, scope) ==
    SyncCall(Pack(LIBPM_MODULE_ID, flag, PM_PLL_GET_MODE, <<clk_id>>),
             buf, 1, reply, s, scope)

\* pm_system_shutdown recording the scope for every type
pm_system_shutdown_any_type(type, subtype, flag, reply, s, scope) ==
    IF type = XPM_SHUTDOWN_TYPE_SETSCOPE_ONLY
    THEN Res(PM_RET_SUCCESS, <<>>, <<>>, s, subtype, NoCall)
    ELSE LET r == pm_ipi_send_non_blocking(
                      Pack(LIBPM_MODULE_ID, flag, PM_SYSTEM_SHUTDOWN,
                           <<type, subtype>>), reply)
         IN  Res(r.ret, <<>>, r.sent, s, subtype, NoCall)

pm_system_shutdown(type, subtype, flag, reply, s, scope) ==
    IF type = XPM_SHUTDOWN_TYPE_SETSCOPE_ONLY
    THEN Res(PM_RET_SUCCESS, <<>>, <<>>, s, subtype, NoCall)
    ELSE LET r == pm_ipi_send_non_blocking(
                      Pack(LIBPM_MODULE_ID, flag, PM_SYSTEM_SHUTDOWN,
                           <<type, subtype>>), reply)
         IN  Res(r.ret, <<>>, r.sent, s, scope, NoCall)

\* pm_feature_check asking the controller whatever the module of the api id
pm_feature_check_every_module(api_id, buf, flag, reply, s, scope) ==
    LET base == IF api_id \in {PM_GET_CALLBACK_DATA, PM_GET_TRUSTZONE_VERSION,
                               PM_QUERY_DATA}
                THEN Shl(PM_API_QUERY_DATA_VERSION, 16)
                ELSE Shl(PM_API_BASE_VERSION, 16)
        r == pm_ipi_send_sync(Pack(LIBPM_MODULE_ID, flag, PM_FEATURE_CHECK,
                                   <<api_id>>), <<0>>, 1, reply)
    IN  IF r.ret # PM_RET_SUCCESS
        THEN Res(r.ret, <<base>>, r.sent, s, scope, NoCall)
        ELSE Res(PM_RET_SUCCESS, <<BitOr(base, r.buf[1])>>, r.sent, s, scope,
                 NoCall)

\* pm_feature_check(api_id, &version, flag); buf is <<version>> as the caller
\* left it
pm_feature_check(api_id, buf, flag, reply, s, scope) ==
    LET module_id == Shr(BitAnd(api_id, MODULE_ID_MASK), 8)
        base == IF api_id \in {PM_GET_CALLBACK_DATA, PM_GET_TRUSTZONE_VERSION,
                               PM_QUERY_DATA}
                THEN Shl(PM_API_QUERY_DATA_VERSION, 16)
                ELSE Shl(PM_API_BASE_VERSION, 16)
        r == pm_ipi_send_sync(Pack(LIBPM_MODULE_ID, flag, PM_FEATURE_CHECK,
                                   <<api_id>>), <<0>>, 1, reply)
    IN  IF module_id > 0 /\ module_id # LIBPM_MODULE_ID
        THEN Res(PM_RET_SUCCESS, buf, <<>>, s, scope, NoCall)
        ELSE IF r.ret # PM_RET_SUCCESS
        THEN Res(r.ret, <<base>>, r.sent, s, scope, NoCall)
        ELSE Res(PM_RET_SUCCESS, <<BitOr(base, r.buf[1])>>, r.sent, s, scope,
                 NoCall)

\* pm_get_proc(cpuid): the node id of the core's descriptor, <<>> for none
pm_get_proc(cpuid) ==
    IF cpuid = 0 THEN <<XPM_DEVID_ACPU_0>>
    ELSE IF cpuid = 1 THEN <<XPM_DEVID_ACPU_1>>
    ELSE <<>>

\* primary_proc->node_id
primary_node == XPM_DEVID_ACPU_0

\* pm_self_suspend handing its frame to the fire-and-forget send
pm_self_suspend_no_wait(nid, latency, state, address, flag, cpuid, reply, s, scope) ==
    LET proc == pm_get_proc(cpuid)
        r == pm_ipi_send(Pack(LIBPM_MODULE_ID, flag, PM_SELF_SUSPEND,
                              <<proc[1], latency, state, address, 0>>), reply)
    IN  IF proc = <<>>
        THEN Res(PM_RET_ERROR_INTERNAL, <<>>, <<>>, s, scope, NoCall)
        ELSE Res(r.ret, <<>>, r.sent, s, scope, NoCall)

pm_self_suspend(nid, latency, state, address, flag, cpuid, reply, s, scope) ==
    LET proc == pm_get_proc(cpuid)
    IN  IF proc = <<>>
        THEN Res(PM_RET_ERROR_INTERNAL, <<>>, <<>>, s, scope, NoCall)
        ELSE SyncCall(Pack(LIBPM_MODULE_ID, flag, PM_SELF_SUSPEND,
                           <<proc[1], latency, state, address, 0>>),
                      <<>>, 0, reply, s, scope)

pm_abort_suspend(reason, flag, reply, s, scope) ==
    SyncCall(Pack(LIBPM_MODULE_ID, flag, PM_ABORT_SUSPEND,
                  <<reason, primary_node>>), <<>>, 0, reply, s, scope)

pm_req_suspend(target, ack, latency, state, flag, reply, s, scope) ==
    LET payload == Pack(LIBPM_MODULE_ID, flag, PM_REQ_SUSPEND,
                        <<target, latency, state>>)
        r == pm_ipi_send(payload, reply)
    IN  IF ack % 256 = IPI_BLOCKING
        THEN SyncCall(payload, <<>>, 0, reply, s, scope)
        ELSE Res(r.ret, <<>>, r.sent, s, scope, NoCall)

pm_req_wakeup(target, set_address, address, ack, flag, reply, s, scope) ==
    SyncCall(Pack(LIBPM_MODULE_ID, flag, PM_REQ_WAKEUP,
                  <<target, set_address, address, ack % 256>>),
             <<>>, 0, reply, s, scope)

pm_force_powerdown(target, ack, flag, reply, s, scope) ==
    LET payload == Pack(LIBPM_MODULE_ID, flag, PM_FORCE_POWERDOWN,
                        <<target, ack % 256>>)
        r == pm_ipi_send(payload, reply)
    IN  IF ack % 256 = IPI_BLOCKING
        THEN SyncCall(payload, <<>>, 0, reply, s, scope)
        ELSE Res(r.ret, <<>>, r.sent, s, scope, NoCall)

pm_set_wakeup_source(target, wkup_device, enable, flag, reply, s, scope) ==
    SyncCall(Pack(LIBPM_MODULE_ID, flag, PM_SET_WAKEUP_SOURCE,
                  <<target, wkup_device, enable % 256>>),
             <<>>, 0, reply, s, scope)

pm_load_pdi(src, address_low, address_high, flag, reply, s, scope) ==
    SyncCall(Pack(LOADER_MODULE_ID, flag, PM_LOAD_PDI,
                  <<src, address_high, address_low>>), <<>>, 0, reply, s, scope)

pm_register_notifier(device_id, event, wake, enable, flag, reply, s, scope) ==
    SyncCall(Pack(LIBPM_MODULE_ID, flag, PM_REGISTER_NOTIFIER,
                  <<device_id, event, wake, enable>>), <<>>, 0, reply, s, scope)

\* the reply shift left out
ShiftReply_none(data) == data

\* the v2 name-query reply shift of pm_query_data: data[0..2] = data[1..3]
ShiftReply(data) ==
    [i \in 1..Len(data) |-> IF i <= 3 THEN data[i + 1] ELSE data[i]]

\* pm_query_data comparing the whole version word, not its low 16 bits, with 3
pm_query_data_whole_word(qid, arg1, arg2, arg3, data, flag, env, s, scope) ==
    LET payload == Pack(LIBPM_MODULE_ID, flag, PM_QUERY_DATA,
                        <<qid, arg1, arg2, arg3>>)
        fc == pm_feature_check(PM_QUERY_DATA, <<0>>, flag, env[1], s, scope)
        fw_api_version == BitAnd(fc.out[1], 65535)
        r8 == pm_ipi_send_sync(payload, data, 8, env[2])
        r4 == pm_ipi_send_sync(payload, data, 4, env[2])
    IN  IF fc.ret # PM_RET_SUCCESS
        THEN Res(fc.ret, data, fc.sent, s, scope, NoCall)
        ELSE IF fc.out[1] = 3
        THEN Res(PM_RET_ERROR_NOTSUPPORTED, data, fc.sent, s, scope, NoCall)
        ELSE IF fw_api_version = 2
                /\ qid \in {XPM_QID_CLOCK_GET_NAME,
                            XPM_QID_PINCTRL_GET_FUNCTION_NAME}
        THEN Res(r8.buf[1], ShiftReply(r8.buf), fc.sent \o r8.sent, s, scope,
                 NoCall)
        ELSE Res(r4.ret, r4.buf, fc.sent \o r4.sent, s, scope, NoCall)

\* pm_query_data reading the firmware version from the high half of the word
pm_query_data_high_half(qid, arg1, arg2, arg3, data, flag, env, s, scope) ==
    LET payload == Pack(LIBPM_MODULE_ID, flag, PM_QUERY_DATA,
                        <<qid, arg1, arg2, arg3>>)
        fc == pm_feature_check(PM_QUERY_DATA, <<0>>, flag, env[1], s, scope)
        fw_api_version == Shr(fc.out[1], 16)
        r8 == pm_ipi_send_sync(payload, data, 8, env[2])
        r4 == pm_ipi_send_sync(payload, data, 4, env[2])
    IN  IF fc.ret # PM_RET_SUCCESS
        THEN Res(fc.ret, data, fc.sent, s, scope, NoCall)
        ELSE IF fw_api_version = 3
        THEN Res(PM_RET_ERROR_NOTSUPPORTED, data, fc.sent, s, scope, NoCall)
        ELSE IF fw_api_version = 2
                /\ qid \in {XPM_QID_CLOCK_GET_NAME,
                            XPM_QID_PINCTRL_GET_FUNCTION_NAME}
        THEN Res(r8.buf[1], ShiftReply(r8.buf), fc.sent \o r8.sent, s, scope,
                 NoCall)
        ELSE Res(r4.ret, r4.buf, fc.sent \o r4.sent, s, scope, NoCall)

\* pm_query_data taking the 8-word branch at version 2 for every query id
pm_query_data_v2_any_qid(qid, arg1, arg2, arg3, data, flag, env, s, scope) ==
    LET payload == Pack(LIBPM_MODULE_ID, flag, PM_QUERY_DATA,
                        <<qid, arg1, arg2, arg3>>)
        fc == pm_feature_check(PM_QUERY_DATA, <<0>>, flag, env[1], s, scope)
        fw_api_version == BitAnd(fc.out[1], 65535)
        r8 == pm_ipi_send_sync(payload, data, 8, env[2])
        r4 == pm_ipi_send_sync(payload, data, 4, env[2])
    IN  IF fc.ret # PM_RET_SUCCESS
        THEN Res(fc.ret, data, fc.sent, s, scope, NoCall)
        ELSE IF fw_api_version = 3
        THEN Res(PM_RET_ERROR_NOTSUPPORTED, data, fc.sent, s, scope, NoCall)
        ELSE IF fw_api_version = 2
        THEN Res(r8.buf[1], ShiftReply(r8.buf), fc.sent \o r8.sent, s, scope,
                 NoCall)
        ELSE Res(r4.ret, r4.buf, fc.sent \o r4.sent, s, scope, NoCall)

\* pm_query_data(qid, arg1, arg2, arg3, data, flag); env[1] answers the feature
\* check, env[2] the query itself
pm_query_data(qid, arg1, arg2, arg3, data, flag, env, s, scope) ==
    LET payload == Pack(LIBPM_MODULE_ID, flag, PM_QUERY_DATA,
                        <<qid, arg1, arg2, arg3>>)
        fc == pm_feature_check(PM_QUERY_DATA, <<0>>, flag, env[1], s, scope)
        fw_api_version == BitAnd(fc.out[1], 65535)
        r8 == pm_ipi_send_sync(payload, data, 8, env[2])
        r4 == pm_ipi_send_sync(payload, data, 4, env[2])
    IN  IF fc.ret # PM_RET_SUCCESS
        THEN Res(fc.ret, data, fc.sent, s, scope, NoCall)
        ELSE IF fw_api_version = 3
        THEN Res(PM_RET_ERROR_NOTSUPPORTED, data, fc.sent, s, scope, NoCall)
        ELSE IF fw_api_version = 2
                /\ qid \in {XPM_QID_CLOCK_GET_NAME,
                            XPM_QID_PINCTRL_GET_FUNCTION_NAME}
        THEN Res(r8.buf[1], ShiftReply(r8.buf), fc.sent \o r8.sent, s, scope,
                 NoCall)
        ELSE Res(r4.ret, r4.buf, fc.sent \o r4.sent, s, scope, NoCall)

\* pm_api_ioctl treating an unknown ioctl id as IOCTL_SET_PLL_FRAC_MODE
pm_api_ioctl_no_default(device_id, ioctl_id, arg1, arg2, arg3, buf, flag, reply, s, scope) ==
    LET reg == pm_register_sgi(arg1, arg2, s)
    IN  CASE ioctl_id = IOCTL_GET_PLL_FRAC_MODE ->
               pm_pll_get_mode(arg1, buf, flag, reply, s, scope)
          [] ioctl_id = IOCTL_SET_PLL_FRAC_DATA ->
               [pm_pll_set_param(arg1, PM_PLL_PARAM_DATA, arg2, flag, reply,
                                 s, scope) EXCEPT !.out = buf]
          [] ioctl_id = IOCTL_GET_PLL_FRAC_DATA ->
               pm_pll_get_param(arg1, PM_PLL_PARAM_DATA, buf, flag, reply,
                                s, scope)
          [] ioctl_id = IOCTL_SET_SGI ->
               Res(IF reg[1] # 0 THEN PM_RET_ERROR_ARGS ELSE PM_RET_SUCCESS,
                   buf, <<>>, reg[2], scope, <<reg[1]>>)
          [] OTHER ->
               [pm_pll_set_mode(arg1, arg2, flag, reply, s, scope)
                   EXCEPT !.out = buf]

\* pm_api_ioctl(device_id, ioctl_id, arg1, arg2, arg3, value, flag); buf is
\* <<value>> as the caller left it
pm_api_ioctl(device_id, ioctl_id, arg1, arg2, arg3, buf, flag, reply, s, scope) ==
    LET reg == pm_register_sgi(arg1, arg2, s)
    IN  CASE ioctl_id = IOCTL_SET_PLL_FRAC_MODE ->
               [pm_pll_set_mode(arg1, arg2, flag, reply, s, scope)
                   EXCEPT !.out = buf]
          [] ioctl_id = IOCTL_GET_PLL_FRAC_MODE ->
               pm_pll_get_mode(arg1, buf, flag, reply, s, scope)
          [] ioctl_id = IOCTL_SET_PLL_FRAC_DATA ->
               [pm_pll_set_param(arg1, PM_PLL_PARAM_DATA, arg2, flag, reply,
                                 s, scope) EXCEPT !.out = buf]
          [] ioctl_id = IOCTL_GET_PLL_FRAC_DATA ->
               pm_pll_get_param(arg1, PM_PLL_PARAM_DATA, buf, flag, reply,
                                s, scope)
          [] ioctl_id = IOCTL_SET_SGI ->
               Res(IF reg[1] # 0 THEN PM_RET_ERROR_ARGS ELSE PM_RET_SUCCESS,
                   buf, <<>>, reg[2], scope, <<reg[1]>>)
          [] OTHER ->
               Res(PM_RET_ERROR_NOTSUPPORTED, buf, <<>>, s, scope, NoCall)

\* pm_get_callbackdata(data, count, flag, ack): <<data, mailbox interrupt status>>
pm_get_callbackdata(data, ack, irq, payload) ==
    IF ~irq THEN <<data, irq>>
    ELSE <<payload, IF ack # 0 THEN FALSE ELSE irq>>

\* an API function whose body is not in these files: one frame carrying the
\* opcode and its arguments, sent blocking, the reply's words in the output
ExtApi(op, args, buf, flag, reply, s, scope) ==
    SyncCall(Pack(LIBPM_MODULE_ID, flag, op, args), buf, Len(buf), reply,
             s, scope)

\* pm_handle_eemi_call passing the module-id field on as it is
pm_handle_eemi_call_no_default(flag, x0, x1, x2, x3, x4, x5, result, reply, s, scope) ==
    SyncCall(Pack(Shr(BitAnd(x0, MODULE_ID_MASK), 8), flag, x0,
                  <<x1, x2, x3, x4, x5>>), result, 8, reply, s, scope)

\* pm_handle_eemi_call(flag, x0, x1, x2, x3, x4, x5, result); result is the
\* caller's buffer as it left it
pm_handle_eemi_call(flag, x0, x1, x2, x3, x4, x5, result, reply, s, scope) ==
    LET field == Shr(BitAnd(x0, MODULE_ID_MASK), 8)
        module_id == IF field = 0 THEN LIBPM_MODULE_ID ELSE field
    IN  SyncCall(Pack(module_id, flag, x0, <<x1, x2, x3, x4, x5>>), result, 8,
                 reply, s, scope)

(***************************************************************************)
(* Service setup.                                                          *)
(***************************************************************************)
\* pm_setup(): init is pm_ipi_init's status, sgi_reg and ipi_reg the results of
\* the two request_intr_type_el3 calls, reply the answer to the notifier
\* registration; up is pm_up before the call
pm_setup(init, sgi_reg, ipi_reg, reply, up) ==
    LET up1 == IF init < 0 THEN up ELSE TRUE
        n == pm_register_notifier(XPM_DEVID_ACPU_0,
                                  EVENT_CPU_IDLE_FORCE_PWRDWN_SUBSYS, 0, 1, 0,
                                  reply, INVALID_SGI, 0)
    IN  IF sgi_reg # 0 THEN [ret |-> sgi_reg, up |-> up1, sent |-> <<>>]
        ELSE IF ipi_reg # 0 THEN [ret |-> ipi_reg, up |-> up1, sent |-> <<>>]
        ELSE [ret |-> n.ret, up |-> up1, sent |-> n.sent]

(***************************************************************************)
(* Top-level SMC handler.                                                  *)
(***************************************************************************)
\* what one call of pm_smc_handler does: the return registers, the frames sent,
\* the process-wide state it leaves, the return value of pm_register_sgi and the
\* status of the API function if one was called
Out(x0, x1, r, irq) ==
    [x0 |-> x0, x1 |-> x1, sent |-> r.sent, sgi |-> r.sgi, scope |-> r.scope,
     irq |-> irq, reg |-> r.reg, api |-> <<r.ret>>]

\* SMC_RET1(handle, ret)
Ret1(r, irq) == Out(<<r.ret, 0>>, NoReg, r, irq)

\* SMC_RET1(handle, ret | value << 32)
Ret1V(r, irq) == Out(<<r.ret, r.out[1]>>, NoReg, r, irq)

\* the case labels of the switch
KnownOps ==
    {PM_SELF_SUSPEND, PM_FORCE_POWERDOWN, PM_REQ_SUSPEND, PM_ABORT_SUSPEND,
     PM_SYSTEM_SHUTDOWN, PM_REQ_WAKEUP, PM_SET_WAKEUP_SOURCE, PM_REQUEST_DEVICE,
     PM_RELEASE_DEVICE, PM_SET_REQUIREMENT, PM_GET_API_VERSION,
     PM_GET_DEVICE_STATUS, PM_RESET_ASSERT, PM_RESET_GET_STATUS,
     PM_INIT_FINALIZE, PM_GET_CALLBACK_DATA, PM_PINCTRL_REQUEST,
     PM_PINCTRL_RELEASE, PM_PINCTRL_GET_FUNCTION, PM_PINCTRL_SET_FUNCTION,
     PM_PINCTRL_CONFIG_PARAM_GET, PM_PINCTRL_CONFIG_PARAM_SET, PM_IOCTL,
     PM_QUERY_DATA, PM_CLOCK_ENABLE, PM_CLOCK_DISABLE, PM_CLOCK_GETSTATE,
     PM_CLOCK_SETDIVIDER, PM_CLOCK_GETDIVIDER, PM_CLOCK_SETPARENT,
     PM_CLOCK_GETPARENT, PM_CLOCK_GETRATE, PM_PLL_SET_PARAMETER,
     PM_PLL_GET_PARAMETER, PM_PLL_SET_MODE, PM_PLL_GET_MODE,
     PM_GET_TRUSTZONE_VERSION, PM_GET_CHIPID, PM_FEATURE_CHECK, PM_LOAD_PDI,
     PM_GET_OP_CHARACTERISTIC, PM_SET_MAX_LATENCY, PM_REGISTER_NOTIFIER}

\* the cases that pass one argument and return the status alone
OneArgOps ==
    {PM_RELEASE_DEVICE, PM_PINCTRL_REQUEST, PM_PINCTRL_RELEASE, PM_CLOCK_ENABLE,
     PM_CLOCK_DISABLE}

\* the cases that pass two arguments and return the status alone
TwoArgOps ==
    {PM_RESET_ASSERT, PM_PINCTRL_SET_FUNCTION, PM_CLOCK_SETDIVIDER,
     PM_CLOCK_SETPARENT, PM_SET_MAX_LATENCY}

\* the cases that pass one argument and return the status and one value read
\* into a local the handler does not initialise
OneArgGetOps ==
    {PM_RESET_GET_STATUS, PM_CLOCK_GETSTATE, PM_CLOCK_GETDIVIDER,
     PM_CLOCK_GETPARENT}

\* an unrecognised call answered with success
Unknown_success(s, scope, irq) ==
    [x0 |-> <<PM_RET_SUCCESS, 0>>, x1 |-> NoReg, sent |-> <<>>, sgi |-> s,
     scope |-> scope, irq |-> irq, reg |-> NoCall, api |-> <<>>]

\* a call rejected or unrecognised: SMC_RET1(handle, SMC_UNK)
Unknown(s, scope, irq) ==
    [x0 |-> SMC_UNK, x1 |-> NoReg, sent |-> <<>>, sgi |-> s, scope |-> scope,
     irq |-> irq, reg |-> NoCall, api |-> <<>>]

\* the switch of pm_smc_handler on op = smc_fid & FUNCID_NUM_MASK
Dispatch(op, a, f, cpu, env, junk, s, scope, irq, payload) ==
    LET e == env[1]
        cb == pm_get_callbackdata(<<0, 0, 0, 0>>, 1, irq, payload)
        none == Res(PM_RET_SUCCESS, <<>>, <<>>, s, scope, NoCall)
        ver == ExtApi(op, <<>>, <<junk>>, f, e, s, scope)
        st3 == ExtApi(op, <<a[1]>>, <<junk, junk, junk>>, f, e, s, scope)
        qd == pm_query_data(a[1], a[2], a[3], a[4], <<0, 0, 0, 0, 0, 0, 0, 0>>,
                            f, env, s, scope)
        rate == ExtApi(op, <<a[1]>>, <<0, 0>>, f, e, s, scope)
        chip == ExtApi(op, <<>>, <<junk, junk>>, f, e, s, scope)
    IN  CASE op = PM_SELF_SUSPEND ->
               Ret1(pm_self_suspend(a[1], a[2], a[3], a[4], f, cpu, e, s, scope), irq)
          [] op = PM_FORCE_POWERDOWN ->
               Ret1(pm_force_powerdown(a[1], a[2], f, e, s, scope), irq)
          [] op = PM_REQ_SUSPEND ->
               Ret1(pm_req_suspend(a[1], a[2], a[3], a[4], f, e, s, scope), irq)
          [] op = PM_ABORT_SUSPEND ->
               Ret1(pm_abort_suspend(a[1], f, e, s, scope), irq)
          [] op = PM_SYSTEM_SHUTDOWN ->
               Ret1(pm_system_shutdown(a[1], a[2], f, e, s, scope), irq)
          [] op = PM_REQ_WAKEUP ->
               Ret1(pm_req_wakeup(a[1], a[2], a[3], a[4], f, e, s, scope), irq)
          [] op = PM_SET_WAKEUP_SOURCE ->
               Ret1(pm_set_wakeup_source(a[1], a[2], a[3], f, e, s, scope), irq)
          [] op \in {PM_REQUEST_DEVICE, PM_SET_REQUIREMENT} ->
               Ret1(ExtApi(op, a, <<>>, f, e, s, scope), irq)
          [] op \in OneArgOps ->
               Ret1(ExtApi(op, <<a[1]>>, <<>>, f, e, s, scope), irq)
          [] op \in TwoArgOps ->
               Ret1(ExtApi(op, <<a[1], a[2]>>, <<>>, f, e, s, scope), irq)
          [] op = PM_GET_API_VERSION ->
               [Out(<<PM_RET_SUCCESS, ver.out[1]>>, NoReg, ver, irq)
                   EXCEPT !.api = <<ver.ret>>]
          [] op = PM_GET_DEVICE_STATUS ->
               Out(<<st3.ret, st3.out[1]>>, <<st3.out[2], st3.out[3]>>, st3, irq)
          [] op \in OneArgGetOps ->
               Ret1V(ExtApi(op, <<a[1]>>, <<junk>>, f, e, s, scope), irq)
          [] op = PM_INIT_FINALIZE ->
               Ret1(ExtApi(op, <<>>, <<>>, f, e, s, scope), irq)
          [] op = PM_GET_CALLBACK_DATA ->
               [Out(<<cb[1][1], cb[1][2]>>, <<cb[1][3], cb[1][4]>>, none, cb[2])
                   EXCEPT !.api = <<>>]
          [] op = PM_PINCTRL_GET_FUNCTION ->
               Ret1V(ExtApi(op, <<a[1]>>, <<0>>, f, e, s, scope), irq)
          [] op \in {PM_PINCTRL_CONFIG_PARAM_GET, PM_PLL_GET_PARAMETER,
                     PM_GET_OP_CHARACTERISTIC} ->
               Ret1V(IF op = PM_PLL_GET_PARAMETER
                     THEN pm_pll_get_param(a[1], a[2], <<junk>>, f, e, s, scope)
                     ELSE ExtApi(op, <<a[1], a[2]>>, <<junk>>, f, e, s, scope),
                     irq)
          [] op \in {PM_PINCTRL_CONFIG_PARAM_SET, PM_PLL_SET_PARAMETER} ->
               Ret1(IF op = PM_PLL_SET_PARAMETER
                    THEN pm_pll_set_param(a[1], a[2], a[3], f, e, s, scope)
                    ELSE ExtApi(op, <<a[1], a[2], a[3]>>, <<>>, f, e, s, scope),
                    irq)
          [] op = PM_IOCTL ->
               Ret1V(pm_api_ioctl(a[1], a[2], a[3], a[4], 0, <<junk>>, f, e,
                                  s, scope), irq)
          [] op = PM_QUERY_DATA ->
               Out(<<qd.ret, qd.out[1]>>, <<qd.out[2], qd.out[3]>>, qd, irq)
          [] op = PM_CLOCK_GETRATE ->
               Out(<<rate.ret, rate.out[1]>>, <<rate.out[2], 0>>, rate, irq)
          [] op = PM_PLL_SET_MODE ->
               Ret1(pm_pll_set_mode(a[1], a[2], f, e, s, scope), irq)
          [] op = PM_PLL_GET_MODE ->
               Ret1V(pm_pll_get_mode(a[1], <<junk>>, f, e, s, scope), irq)
          [] op = PM_GET_TRUSTZONE_VERSION ->
               [Out(<<PM_RET_SUCCESS, VERSAL_TZ_VERSION>>, NoReg, none, irq)
                   EXCEPT !.api = <<>>]
          [] op = PM_GET_CHIPID ->
               Out(<<chip.ret, chip.out[1]>>, <<chip.out[2], 0>>, chip, irq)
          [] op = PM_FEATURE_CHECK ->
               Ret1V(pm_feature_check(a[1], <<junk>>, f, e, s, scope), irq)
          [] op = PM_LOAD_PDI ->
               Ret1(pm_load_pdi(a[1], a[2], a[3], f, e, s, scope), irq)
          [] op = PM_REGISTER_NOTIFIER ->
               Ret1(pm_register_notifier(a[1], a[2], a[3], a[4], f, e, s, scope),
                    irq)
          [] OTHER -> Unknown(s, scope, irq)

\* pm_smc_handler without the pm_up check
pm_smc_handler_no_up_check(smc_fid, x1, x2, ns, cpu, env, junk, up, s, scope, irq, payload) ==
    Dispatch(FuncNum(smc_fid), <<x1[1], x1[2], x2[1], x2[2]>>,
             IF ns THEN NON_SECURE_FLAG ELSE SECURE_FLAG, cpu, env, junk,
             s, scope, irq, payload)

\* pm_smc_handler(smc_fid, x1, x2, x3, x4, cookie, handle, flags): x1 and x2 are
\* registers <<low, high>>, ns is is_caller_non_secure(flags), cpu the core the
\* trap is taken on, env the controller's answers to the frames sent, junk what
\* the stack holds where a local is not initialised
pm_smc_handler(smc_fid, x1, x2, ns, cpu, env, junk, up, s, scope, irq, payload) ==
    LET pm_arg == <<x1[1], x1[2], x2[1], x2[2]>>
        security_flag == IF ns THEN NON_SECURE_FLAG ELSE SECURE_FLAG
    IN  IF ~up THEN Unknown(s, scope, irq)
        ELSE Dispatch(FuncNum(smc_fid), pm_arg, security_flag, cpu, env, junk,
                      s, scope, irq, payload)

(***************************************************************************)
(* IPI callback interrupt.                                                 *)
(***************************************************************************)
VERSAL_CPU_IDLE_SGI == 0

\* one step the interrupt handler takes at the interrupt controller, the
\* mailbox or the SGI register
Ev(k, a, b) == [k |-> k, a |-> a, b |-> b]

\* notify_os writing the core's index as it is
notify_os_no_offset(cpu, s) == <<Ev("asgi1r", BitOr(cpu, Shl(s, 24)), 0)>>

\* notify_os(): write_icc_asgi1r_el1(cpu | sgi << 24), cpu = plat_my_core_pos() + 1
notify_os(cpu, s) == <<Ev("asgi1r", BitOr(cpu + 1, Shl(s, 24)), 0)>>

RECURSIVE IdleFrom(_, _)
\* the loop of request_cpu_idle from core i on
IdleFrom(i, core_mask) ==
    IF i >= PLATFORM_CORE_COUNT THEN <<>>
    ELSE (IF BitAnd(core_mask, Shl(1, i)) # 0
          THEN <<Ev("el3_sgi", VERSAL_CPU_IDLE_SGI, i)>> ELSE <<>>)
         \o IdleFrom(i + 1, core_mask)

\* request_cpu_idle raising the idle SGI on every core
request_cpu_idle_every_core(core_mask) ==
    IdleFrom(0, Pow2(PLATFORM_CORE_COUNT) - 1)

\* request_cpu_idle(core_mask)
request_cpu_idle(core_mask) == IdleFrom(0, core_mask)

\* ipi_fiq_handler signalling end-of-interrupt before it looks at the payload
ipi_fiq_handler_early_eoi(cpu, s, irq, buffer) ==
    LET payload == pm_get_callbackdata(<<0, 0, 0, 0>>, 0, irq, buffer)[1]
        body ==
          IF payload[1] = PM_INIT_SUSPEND_CB
          THEN [ev |-> IF s # INVALID_SGI THEN notify_os(cpu, s) ELSE <<>>,
                irq |-> irq]
          ELSE IF payload[1] = PM_NOTIFY_CB
          THEN IF payload[3] = EVENT_CPU_IDLE_FORCE_PWRDWN_SUBSYS
               THEN [ev |-> request_cpu_idle(payload[2])
                              \o <<Ev("irq_clear", 0, 0)>>,
                     irq |-> FALSE]
               ELSE [ev |-> IF s # INVALID_SGI THEN notify_os(cpu, s) ELSE <<>>,
                     irq |-> irq]
          ELSE [ev |-> <<Ev("irq_clear", 0, 0)>>, irq |-> FALSE]
    IN  [ev |-> <<Ev("ack", 0, 0), Ev("read", payload[1], 0), Ev("eoi", 0, 0)>>
                  \o body.ev,
         irq |-> body.irq, sgi |-> s]

\* ipi_fiq_handler dropping the registration once it has notified the OS
ipi_fiq_handler_one_shot(cpu, s, irq, buffer) ==
    LET payload == pm_get_callbackdata(<<0, 0, 0, 0>>, 0, irq, buffer)[1]
        body ==
          IF payload[1] = PM_INIT_SUSPEND_CB
          THEN [ev |-> IF s # INVALID_SGI THEN notify_os(cpu, s) ELSE <<>>,
                irq |-> irq]
          ELSE IF payload[1] = PM_NOTIFY_CB
          THEN IF payload[3] = EVENT_CPU_IDLE_FORCE_PWRDWN_SUBSYS
               THEN [ev |-> request_cpu_idle(payload[2])
                              \o <<Ev("irq_clear", 0, 0)>>,
                     irq |-> FALSE]
               ELSE [ev |-> IF s # INVALID_SGI THEN notify_os(cpu, s) ELSE <<>>,
                     irq |-> irq]
          ELSE [ev |-> <<Ev("irq_clear", 0, 0)>>, irq |-> FALSE]
    IN  [ev |-> <<Ev("ack", 0, 0), Ev("read", payload[1], 0)>> \o body.ev
                  \o <<Ev("eoi", 0, 0)>>,
         irq |-> body.irq,
         sgi |-> IF body.irq THEN INVALID_SGI ELSE s]

\* ipi_fiq_handler(id, flags, handle, cookie) on core cpu: the steps taken, the
\* mailbox interrupt status it leaves and the SGI registration it leaves
ipi_fiq_handler(cpu, s, irq, buffer) ==
    LET payload == pm_get_callbackdata(<<0, 0, 0, 0>>, 0, irq, buffer)[1]
        body ==
          IF payload[1] = PM_INIT_SUSPEND_CB
          THEN [ev |-> IF s # INVALID_SGI THEN notify_os(cpu, s) ELSE <<>>,
                irq |-> irq]
          ELSE IF payload[1] = PM_NOTIFY_CB
          THEN IF payload[3] = EVENT_CPU_IDLE_FORCE_PWRDWN_SUBSYS
               THEN [ev |-> request_cpu_idle(payload[2])
                              \o <<Ev("irq_clear", 0, 0)>>,
                     irq |-> FALSE]
               ELSE [ev |-> IF s # INVALID_SGI THEN notify_os(cpu, s) ELSE <<>>,
                     irq |-> irq]
          ELSE [ev |-> <<Ev("irq_clear", 0, 0)>>, irq |-> FALSE]
    IN  [ev |-> <<Ev("ack", 0, 0), Ev("read", payload[1], 0)>> \o body.ev
                  \o <<Ev("eoi", 0, 0)>>,
         irq |-> body.irq, sgi |-> s]

(***************************************************************************)
(* The state machine: the service is set up once at boot, then SMC traps   *)
(* and callback interrupts arrive in any order.                            *)
(***************************************************************************)
NoEnv == <<Reply(FALSE, PM_RET_ERROR_TIMEOUT, <<0, 0, 0, 0, 0, 0, 0, 0>>),
           Reply(FALSE, PM_RET_ERROR_TIMEOUT, <<0, 0, 0, 0, 0, 0, 0, 0>>)>>

\* the record of the last operation: what it was called with, the state before
\* it, and what it returned and did
Last(op, fid, arg, ns, cpu, junk, env, x0, x1, sent, reg, api, ev) ==
    [op |-> op, fid |-> fid, arg |-> arg, ns |-> ns, cpu |-> cpu,
     junk |-> junk, env |-> env,
     pre_up |-> pm_up, pre_sgi |-> sgi, pre_scope |-> pm_shutdown_scope,
     pre_irq |-> ipi_irq,
     x0 |-> x0, x1 |-> x1, sent |-> sent, reg |-> reg, api |-> api, ev |-> ev]

\* no operation to report
Idle ==
    [op |-> "idle", fid |-> 0, arg |-> <<0, 0, 0, 0>>, ns |-> FALSE,
     cpu |-> 0, junk |-> 0, env |-> NoEnv,
     pre_up |-> FALSE, pre_sgi |-> INVALID_SGI,
     pre_scope |-> XPM_SHUTDOWN_SUBTYPE_RST_SYSTEM, pre_irq |-> FALSE,
     x0 |-> NoReg, x1 |-> NoReg, sent |-> <<>>, reg |-> NoCall,
     api |-> <<>>, ev |-> <<>>]

Cores == 0..(PLATFORM_CORE_COUNT - 1)

\* a core that is not inside pm_register_sgi
MCIdle == [pc |-> "idle", num |-> 0, reset |-> 0, ret |-> 0, start |-> INVALID_SGI]

Init ==
    /\ pm_up = FALSE
    /\ sgi = INVALID_SGI
    /\ pm_shutdown_scope = XPM_SHUTDOWN_SUBTYPE_RST_SYSTEM
    /\ scope_req = XPM_SHUTDOWN_SUBTYPE_RST_SYSTEM
    /\ ipi_irq = FALSE
    /\ callb = <<0, 0, 0, 0>>
    /\ phase = "boot"
    /\ last = Idle
    /\ mc = [c \in Cores |-> MCIdle]

\* the answers the controller and the transport can give to one frame
OkWords == <<11, 12, 13, 14, 15, 16, 17, 18>>
Fail == Reply(FALSE, PM_RET_ERROR_TIMEOUT, OkWords)
Good == Reply(TRUE, PM_RET_SUCCESS, OkWords)
Bad == Reply(TRUE, PM_RET_ERROR_ARGS, OkWords)
Replies == {Fail, Good, Bad}

\* pm_setup runs once, from the runtime-service initialisation
Setup ==
    /\ phase = "boot"
    /\ \E init \in {0, -1}, sgi_reg \in {0, -EINVAL}, ipi_reg \in {0, -EINVAL},
          reply \in Replies :
         \E r \in {pm_setup(init, sgi_reg, ipi_reg, reply, pm_up)} :
             /\ pm_up' = r.up
             /\ last' = Last("setup", 0, <<init, sgi_reg, ipi_reg, 0>>, FALSE, 0,
                             0, <<reply, Fail>>, <<r.ret, 0>>, NoReg, r.sent,
                             NoCall, <<>>, <<>>)
    /\ phase' = "ret"
    /\ UNCHANGED <<sgi, pm_shutdown_scope, scope_req, ipi_irq, callb, mc>>

\* one SMC trap into pm_smc_handler
Smc(smc_fid, x1, x2, ns, cpu, env, junk) ==
    /\ phase = "run"
    /\ \E r \in {pm_smc_handler(smc_fid, x1, x2, ns, cpu, env, junk, pm_up, sgi,
                                pm_shutdown_scope, ipi_irq, callb)} :
         /\ sgi' = r.sgi
         /\ pm_shutdown_scope' = r.scope
         /\ ipi_irq' = r.irq
         /\ last' = Last("smc", smc_fid, <<x1[1], x1[2], x2[1], x2[2]>>, ns, cpu,
                         junk, env, r.x0, r.x1, r.sent, r.reg, r.api, <<>>)
    /\ scope_req' = IF pm_up /\ FuncNum(smc_fid) = PM_SYSTEM_SHUTDOWN
                       /\ x1[1] = XPM_SHUTDOWN_TYPE_SETSCOPE_ONLY
                    THEN x1[2] ELSE scope_req
    /\ phase' = "ret"
    /\ UNCHANGED <<pm_up, callb, mc>>

\* what the stack may hold where a local is not initialised
JunkWords == {0, 77}

\* upper bits of a function id: none, and a fast SMC64 SiP call (0xC2000000)
FidBases == {0, -1040187392}

\* opcodes that are no case label of the switch
UnknownOps == {0, 2, 41, 64, 2562}

\* SGI numbers asked for: valid ones, the first invalid one, and INVALID_SGI
SgiNums == {7, GICV3_MAX_SGI_TARGETS - 1, GICV3_MAX_SGI_TARGETS, INVALID_SGI}

\* answers to a feature check: failures, and firmware versions
FcReplies ==
    {Fail, Bad}
    \cup {Reply(TRUE, PM_RET_SUCCESS, <<v, 0, 0, 0, 0, 0, 0, 0>>) :
             v \in (0..MaxFwVersion) \cup {65536 + 2, 65536 + 3}}

\* answers to a query: failures, and replies of distinct words
QReplies ==
    {Fail, Good, Bad,
     Reply(TRUE, PM_RET_SUCCESS, <<PM_RET_ERROR_ARGS, 22, 23, 24, 25, 26, 27, 28>>)}

SmcUnknown ==
    \E base \in FidBases, op \in UnknownOps, ns \in BOOLEAN :
        Smc(base + op, <<1, 2>>, <<3, 4>>, ns, 0, <<Good, Good>>, 0)

SmcSetSgi ==
    \E num \in SgiNums, reset \in 0..2, junk \in JunkWords :
        Smc(PM_IOCTL, <<0, IOCTL_SET_SGI>>, <<num, reset>>, TRUE, 0,
            <<Good, Good>>, junk)

SmcIoctl ==
    \E id \in {IOCTL_SET_PLL_FRAC_MODE, IOCTL_GET_PLL_FRAC_MODE,
               IOCTL_SET_PLL_FRAC_DATA, IOCTL_GET_PLL_FRAC_DATA, 0,
               IOCTL_SET_SGI + 1},
       reply \in Replies, junk \in JunkWords :
        Smc(PM_IOCTL, <<0, id>>, <<1, 2>>, TRUE, 0, <<reply, Fail>>, junk)

SmcShutdown ==
    \E type \in 0..MaxType, subtype \in 0..MaxSubtype, reply \in {Fail, Good} :
        Smc(PM_SYSTEM_SHUTDOWN, <<type, subtype>>, <<0, 0>>, TRUE, 0,
            <<reply, Fail>>, 0)

SmcQueryData ==
    \E qid \in {0, XPM_QID_CLOCK_GET_NAME, XPM_QID_PINCTRL_GET_FUNCTION_NAME},
       ns \in BOOLEAN, fc \in FcReplies, q \in QReplies :
        Smc(PM_QUERY_DATA, <<qid, 1>>, <<2, 3>>, ns, 0, <<fc, q>>, 0)

SmcFeatureCheck ==
    \E api_id \in {PM_QUERY_DATA, PM_SELF_SUSPEND, PM_LOAD_PDI,
                   Shl(LIBPM_MODULE_ID, 8) + PM_QUERY_DATA},
       reply \in {Fail, Bad, Good}, junk \in JunkWords :
        Smc(PM_FEATURE_CHECK, <<api_id, 0>>, <<0, 0>>, TRUE, 0,
            <<reply, Fail>>, junk)

SmcSelfSuspend ==
    \E cpu \in Cores, ns \in BOOLEAN, reply \in Replies :
        Smc(PM_SELF_SUSPEND, <<3, 0>>, <<1, 4096>>, ns, cpu, <<reply, Fail>>, 0)

SmcAck ==
    \E op \in {PM_REQ_SUSPEND, PM_FORCE_POWERDOWN},
       ack \in {0, IPI_BLOCKING, 2, 256 + IPI_BLOCKING}, reply \in Replies :
        Smc(op, <<5, ack>>, <<6, 7>>, TRUE, 0, <<reply, Fail>>, 0)

SmcWakeup ==
    \E ack \in {0, IPI_BLOCKING, 2}, reply \in Replies :
        Smc(PM_REQ_WAKEUP, <<5, 1>>, <<4096, ack>>, TRUE, 0, <<reply, Fail>>, 0)

\* every other case of the switch
SmcOther ==
    \E op \in KnownOps \ {PM_IOCTL, PM_SYSTEM_SHUTDOWN, PM_QUERY_DATA,
                          PM_FEATURE_CHECK, PM_SELF_SUSPEND, PM_REQ_SUSPEND,
                          PM_FORCE_POWERDOWN, PM_REQ_WAKEUP},
       reply \in Replies :
        Smc(op, <<1, 2>>, <<3, 4>>, TRUE, 0, <<reply, Fail>>, 77)

\* the controller posts a callback payload and raises the mailbox interrupt
CallbPayloads ==
    {<<PM_INIT_SUSPEND_CB, 0, 0, 0>>,
     <<PM_NOTIFY_CB, 2, EVENT_CPU_IDLE_FORCE_PWRDWN_SUBSYS, 0>>,
     <<PM_NOTIFY_CB, 3, EVENT_CPU_IDLE_FORCE_PWRDWN_SUBSYS, 0>>,
     <<PM_NOTIFY_CB, 1 + Pow2(PLATFORM_CORE_COUNT),
       EVENT_CPU_IDLE_FORCE_PWRDWN_SUBSYS, 0>>,
     <<PM_NOTIFY_CB, 3, 1, 0>>,
     <<31, 0, 0, 0>>}

PmcCallback ==
    /\ phase = "run"
    /\ ~ipi_irq
    /\ \E p \in CallbPayloads : callb' = p
    /\ ipi_irq' = TRUE
    /\ UNCHANGED <<pm_up, sgi, pm_shutdown_scope, scope_req, phase, last, mc>>

\* the callback interrupt is taken on a core
IpiFiq ==
    /\ phase = "run"
    /\ pm_up
    /\ ipi_irq
    /\ \E cpu \in Cores :
         \E r \in {ipi_fiq_handler(cpu, sgi, ipi_irq, callb)} :
             /\ ipi_irq' = r.irq
             /\ sgi' = r.sgi
             /\ last' = Last("fiq", 0, callb, FALSE, cpu, 0, NoEnv, NoReg, NoReg,
                             <<>>, NoCall, <<>>, r.ev)
    /\ phase' = "ret"
    /\ UNCHANGED <<pm_up, pm_shutdown_scope, scope_req, callb, mc>>

\* EL3 returns to the interrupted or calling context
Resume ==
    /\ phase = "ret"
    /\ phase' = "run"
    /\ last' = Idle
    /\ UNCHANGED <<pm_up, sgi, pm_shutdown_scope, scope_req, ipi_irq, callb, mc>>

Next ==
    \/ Setup
    \/ SmcUnknown
    \/ SmcSetSgi
    \/ SmcIoctl
    \/ SmcShutdown
    \/ SmcQueryData
    \/ SmcFeatureCheck
    \/ SmcSelfSuspend
    \/ SmcAck
    \/ SmcWakeup
    \/ SmcOther
    \/ PmcCallback
    \/ IpiFiq
    \/ Resume

Spec == Init /\ [][Next]_vars

(***************************************************************************)
(* Two cores inside pm_register_sgi at once.  Each core takes an SMC trap  *)
(* of its own (PM_IOCTL, IOCTL_SET_SGI); the function takes no lock, so    *)
(* its reads and writes of sgi interleave with the other core's.           *)
(***************************************************************************)
InitMC ==
    /\ pm_up = TRUE
    /\ sgi = INVALID_SGI
    /\ pm_shutdown_scope = XPM_SHUTDOWN_SUBTYPE_RST_SYSTEM
    /\ scope_req = XPM_SHUTDOWN_SUBTYPE_RST_SYSTEM
    /\ ipi_irq = FALSE
    /\ callb = <<0, 0, 0, 0>>
    /\ phase = "run"
    /\ last = Idle
    /\ mc = [c \in Cores |-> MCIdle]

MCRest == <<pm_up, pm_shutdown_scope, scope_req, ipi_irq, callb, phase, last>>

\* the core returns from pm_register_sgi with ret
MCDone(c, ret) == mc' = [mc EXCEPT ![c].pc = "done", ![c].ret = ret]

\* pm_api_ioctl calls pm_register_sgi(arg1, arg2)
MCCall(c) ==
    /\ mc[c].pc = "idle"
    /\ \E num \in SgiNums, reset \in {0, 1} :
         mc' = [mc EXCEPT ![c] = [pc |-> "l136", num |-> num, reset |-> reset,
                                  ret |-> 0, start |-> sgi]]
    /\ UNCHANGED <<sgi, MCRest>>

\* if (reset == 1) { sgi = INVALID_SGI; return 0; }
MCReset(c) ==
    /\ mc[c].pc = "l136"
    /\ IF mc[c].reset = 1
       THEN sgi' = INVALID_SGI /\ MCDone(c, 0)
       ELSE sgi' = sgi /\ mc' = [mc EXCEPT ![c].pc = "l141"]
    /\ UNCHANGED MCRest

\* if (sgi != INVALID_SGI) return -EBUSY;
MCCheckBusy(c) ==
    /\ mc[c].pc = "l141"
    /\ IF sgi # INVALID_SGI
       THEN MCDone(c, -EBUSY)
       ELSE mc' = [mc EXCEPT ![c].pc = "l145"]
    /\ UNCHANGED <<sgi, MCRest>>

\* if (sgi_num >= GICV3_MAX_SGI_TARGETS) return -EINVAL;
MCCheckRange(c) ==
    /\ mc[c].pc = "l145"
    /\ IF mc[c].num >= GICV3_MAX_SGI_TARGETS
       THEN MCDone(c, -EINVAL)
       ELSE mc' = [mc EXCEPT ![c].pc = "l149"]
    /\ UNCHANGED <<sgi, MCRest>>

\* sgi = sgi_num; return 0;
MCWrite(c) ==
    /\ mc[c].pc = "l149"
    /\ sgi' = mc[c].num
    /\ MCDone(c, 0)
    /\ UNCHANGED MCRest

\* the SMC returns to the caller
MCReturn(c) ==
    /\ mc[c].pc = "done"
    /\ mc' = [mc EXCEPT ![c] = MCIdle]
    /\ UNCHANGED <<sgi, MCRest>>

NextMC ==
    \E c \in Cores :
        \/ MCCall(c)
        \/ MCReset(c)
        \/ MCCheckBusy(c)
        \/ MCCheckRange(c)
        \/ MCWrite(c)
        \/ MCReturn(c)

SpecMC == InitMC /\ [][NextMC]_vars

(***************************************************************************)
(* The frame codec on its own: PM_PACK_PAYLOAD6 over every opcode, module  *)
(* id and flag, and pm_handle_eemi_call, which no case of the handler      *)
(* calls, over words x0 with and without a module-id field.                *)
(***************************************************************************)
\* the values of one byte
Bytes == 0..BYTE_MASK

\* the arguments packed after word 0
PackArgs == <<101, 102, 103, 104, 105>>

\* PM_PACK_PAYLOAD6(payload, mid, flag, arg0, arg1, .., arg5)
PackPayload ==
    /\ phase = "run"
    /\ \E arg0 \in Bytes, mid \in Bytes, flag \in {SECURE_FLAG, NON_SECURE_FLAG} :
         last' = Last("pack", arg0, <<mid, flag, 0, 0>>, flag = NON_SECURE_FLAG,
                      0, 0, NoEnv, NoReg, NoReg, <<>>, NoCall,
                      Pack(mid, flag, arg0, PackArgs), <<>>)
    /\ phase' = "ret"
    /\ UNCHANGED <<pm_up, sgi, pm_shutdown_scope, scope_req, ipi_irq, callb, mc>>

\* words x0: an opcode byte, a module-id field, and bits above the field
EemiWords ==
    {op + 256 * m + hi : op \in {0, 1, PM_FEATURE_CHECK, BYTE_MASK},
                         m \in {0, 1, LIBPM_MODULE_ID, LOADER_MODULE_ID, BYTE_MASK},
                         hi \in {0, 65536, 16777216}}

\* pm_handle_eemi_call(flag, x0, .., x5, result)
EemiCall ==
    /\ phase = "run"
    /\ \E x0 \in EemiWords, flag \in {SECURE_FLAG, NON_SECURE_FLAG},
          reply \in {Good, Fail} :
         \E r \in {pm_handle_eemi_call(flag, x0, 1, 2, 3, 4, 5,
                                       <<0, 0, 0, 0, 0, 0, 0, 0>>, reply, sgi,
                                       pm_shutdown_scope)} :
             last' = Last("eemi", x0, <<1, 2, 3, 4, 5>>, flag = NON_SECURE_FLAG,
                          0, 0, <<reply, Fail>>, <<r.ret, r.out[1]>>,
                          <<r.out[2], r.out[3]>>, r.sent, NoCall, <<r.ret>>, <<>>)
    /\ phase' = "ret"
    /\ UNCHANGED <<pm_up, sgi, pm_shutdown_scope, scope_req, ipi_irq, callb, mc>>

NextPack ==
    \/ PackPayload
    \/ EemiCall
    \/ Resume

SpecPack == InitMC /\ [][NextPack]_vars

(***************************************************************************)
(* The blocking send, step by step.  A core that traps with an SMC whose   *)
(* API function calls pm_ipi_send_sync stays in EL3 until the controller   *)
(* has posted its reply: the transport raises the mailbox status, the core *)
(* reads the reply from the mailbox buffer and the handler returns the     *)
(* status in its first word.  One request is outstanding at a time.        *)
(***************************************************************************)
\* a core that is not inside pm_smc_handler
WaitIdle == [pc |-> "idle", fid |-> 0, arg |-> <<0, 0, 0, 0>>, ns |-> FALSE,
             reply |-> <<>>, x0 |-> NoReg, cont |-> <<>>]

\* the service after a pm_setup that succeeded, no SMC in progress
InitWait ==
    /\ pm_up = TRUE
    /\ sgi = INVALID_SGI
    /\ pm_shutdown_scope = XPM_SHUTDOWN_SUBTYPE_RST_SYSTEM
    /\ scope_req = XPM_SHUTDOWN_SUBTYPE_RST_SYSTEM
    /\ ipi_irq = FALSE
    /\ callb = <<0, 0, 0, 0>>
    /\ phase = "run"
    /\ last = Idle
    /\ mc = [c \in Cores |-> WaitIdle]

\* the SMCs issued: self-suspend, request-suspend and force-powerdown with and
\* without acknowledge, request-wakeup with acknowledge
WaitSmcs ==
    {<<PM_SELF_SUSPEND, 3, 0, 1, 4096>>,
     <<PM_REQ_SUSPEND, 5, IPI_BLOCKING, 6, 7>>,
     <<PM_REQ_SUSPEND, 5, 0, 6, 7>>,
     <<PM_FORCE_POWERDOWN, 5, IPI_BLOCKING, 0, 0>>,
     <<PM_FORCE_POWERDOWN, 5, 0, 0, 0>>,
     <<PM_REQ_WAKEUP, 5, 1, 4096, IPI_BLOCKING>>}

\* what pm_smc_handler does for the SMC core c is in, given the transport's
\* answer to its frame
HandlerOf(c, m, reply) ==
    pm_smc_handler(m.fid, <<m.arg[1], m.arg[2]>>, <<m.arg[3], m.arg[4]>>, m.ns,
                   c, <<reply, reply>>, 0, pm_up, sgi, pm_shutdown_scope,
                   FALSE, <<0, 0, 0, 0>>)

\* the statuses the controller answers a request with
ReplyStatuses == {PM_RET_SUCCESS, PM_RET_ERROR_ARGS}

\* the reply the transport hands to the waiting sender when the mailbox
\* buffer's first word is st: that word is the status
MailboxReply(st) == Reply(TRUE, st, <<st, 12, 13, 14, 0, 0, 0, 0>>)

\* core c traps; the handler runs up to the send.  After pm_ipi_send_sync the
\* core waits, and cont is how the handler goes on from each reply; after
\* pm_ipi_send the handler returns at once.
SmcSend(c) ==
    /\ mc[c].pc = "idle"
    /\ \A d \in Cores : mc[d].pc # "wait"
    /\ ~ipi_irq
    /\ \E w \in WaitSmcs, ns \in BOOLEAN :
         \E m \in {[WaitIdle EXCEPT !.fid = w[1], !.ns = ns,
                                    !.arg = <<w[2], w[3], w[4], w[5]>>]} :
             \E r \in {HandlerOf(c, m, Good)} :
                 mc' = [mc EXCEPT ![c] =
                          IF r.sent[1].mode = "sync"
                          THEN [m EXCEPT !.pc = "wait",
                                         !.cont = [st \in ReplyStatuses |->
                                             HandlerOf(c, m, MailboxReply(st)).x0]]
                          ELSE [m EXCEPT !.pc = "done", !.x0 = r.x0]]
    /\ UNCHANGED <<pm_up, sgi, pm_shutdown_scope, scope_req, ipi_irq, callb,
                   phase, last>>

\* the controller posts its reply to the outstanding request and the
\* transport raises the mailbox status
Answer ==
    /\ \E c \in Cores :
         /\ mc[c].pc = "wait"
         /\ mc[c].reply = <<>>
         /\ \E st \in ReplyStatuses :
              /\ callb' = <<st, 12, 13, 14>>
              /\ mc' = [mc EXCEPT ![c].reply = <<st>>]
    /\ ipi_irq' = TRUE
    /\ UNCHANGED <<pm_up, sgi, pm_shutdown_scope, scope_req, phase, last>>

\* the waiting core sees the status raised, takes the reply out of the
\* mailbox and the handler returns with it
Observe(c) ==
    /\ mc[c].pc = "wait"
    /\ ipi_irq
    /\ mc' = [mc EXCEPT ![c].pc = "done", ![c].x0 = mc[c].cont[callb[1]]]
    /\ ipi_irq' = FALSE
    /\ UNCHANGED <<pm_up, sgi, pm_shutdown_scope, scope_req, callb, phase, last>>

\* EL3 returns to the caller of the SMC
ReturnSmc(c) ==
    /\ mc[c].pc = "done"
    /\ mc' = [mc EXCEPT ![c] = WaitIdle]
    /\ UNCHANGED <<pm_up, sgi, pm_shutdown_scope, scope_req, ipi_irq, callb,
                   phase, last>>

NextWait ==
    \/ \E c \in Cores : SmcSend(c)
    \/ Answer
    \/ \E c \in Cores : Observe(c)
    \/ \E c \in Cores : ReturnSmc(c)

\* the controller answers every request in the end, and a core that polls in
\* EL3 is not descheduled
SpecWait ==
    /\ InitWait
    /\ [][NextWait]_vars
    /\ WF_vars(Answer)
    /\ \A c \in Cores : WF_vars(Observe(c))

(***************************************************************************)
(* The blocking send together with the two other contexts that clear the   *)
(* mailbox interrupt: ipi_fiq_handler taken on another core, and the OS on *)
(* another core fetching callback data.                                    *)
(***************************************************************************)
\* the mailbox interrupt is taken on a core that is not inside pm_smc_handler
FiqOther(c) ==
    /\ mc[c].pc = "idle"
    /\ ipi_irq
    /\ \E r \in {ipi_fiq_handler(c, sgi, ipi_irq, callb)} :
         /\ ipi_irq' = r.irq
         /\ sgi' = r.sgi
    /\ UNCHANGED <<pm_up, pm_shutdown_scope, scope_req, callb, phase, last, mc>>

\* the OS on a core that is not inside pm_smc_handler calls
\* PM_GET_CALLBACK_DATA
GetCallbackOther(c) ==
    /\ mc[c].pc = "idle"
    /\ ipi_irq
    /\ \E r \in {pm_smc_handler(PM_GET_CALLBACK_DATA, <<0, 0>>, <<0, 0>>, TRUE,
                                c, <<Fail, Fail>>, 0, pm_up, sgi,
                                pm_shutdown_scope, ipi_irq, callb)} :
         /\ ipi_irq' = r.irq
         /\ mc' = [mc EXCEPT ![c].pc = "done", ![c].fid = PM_GET_CALLBACK_DATA,
                             ![c].x0 = r.x0]
    /\ UNCHANGED <<pm_up, sgi, pm_shutdown_scope, scope_req, callb, phase, last>>

NextIpi ==
    \/ NextWait
    \/ \E c \in Cores : FiqOther(c)
    \/ \E c \in Cores : GetCallbackOther(c)

SpecIpi == InitWait /\ [][NextIpi]_vars

(***************************************************************************)
(* Properties.                                                             *)
(***************************************************************************)
\* the last operation was an SMC trap
IsSmc == phase = "ret" /\ last.op = "smc"

\* the opcode of the last SMC
LastOp == FuncNum(last.fid)

\* the last SMC reached pm_register_sgi(num, reset) through the set-SGI ioctl
IsRegister(num, reset) ==
    /\ IsSmc /\ last.pre_up
    /\ LastOp = PM_IOCTL /\ last.arg[2] = IOCTL_SET_SGI
    /\ last.arg[3] = num /\ last.arg[4] = reset

\* the last SMC left the SGI registration, the shutdown scope, the service-up
\* flag and the mailbox interrupt as they were
StateKept ==
    /\ sgi = last.pre_sgi
    /\ pm_shutdown_scope = last.pre_scope
    /\ pm_up = last.pre_up
    /\ ipi_irq = last.pre_irq

\* C1: while pm_up is false every SMC, whatever its function id and arguments,
\* returns SMC_UNK, sends no frame and changes neither the SGI registration nor
\* the shutdown scope.
C1_DownRejectsAll ==
    (IsSmc /\ ~last.pre_up) =>
        /\ last.x0 = SMC_UNK
        /\ last.x1 = NoReg
        /\ last.sent = <<>>
        /\ last.reg = NoCall
        /\ StateKept

\* a set-SGI ioctl with a valid number was rejected while the service was down
C1_Witness ==
    /\ IsSmc /\ ~last.pre_up
    /\ LastOp = PM_IOCTL /\ last.arg[2] = IOCTL_SET_SGI
    /\ last.arg[3] = 7 /\ last.arg[4] = 0
    /\ last.x0 = SMC_UNK /\ sgi = INVALID_SGI

\* C2: with the service up, an SMC whose opcode is no case label returns SMC_UNK
\* (it returns: the trap reaches its exit), sends nothing and leaves the SGI
\* registration, the shutdown scope and the service-up flag unchanged, in every
\* reachable state.
C2_UnknownOpcode ==
    (IsSmc /\ last.pre_up /\ LastOp \notin KnownOps) =>
        /\ last.x0 = SMC_UNK
        /\ last.x1 = NoReg
        /\ last.sent = <<>>
        /\ StateKept

\* an unknown opcode under a fast SMC64 function id, after an SGI was registered
\* and a scope set
C2_Witness ==
    /\ IsSmc /\ last.pre_up
    /\ last.fid = -1040187392 + 41
    /\ last.pre_sgi = 7 /\ last.pre_scope = 0
    /\ last.x0 = SMC_UNK

\* C3: pm_register_sgi(n, 0) with a valid n from UNREGISTERED returns 0 and
\* registers n; pm_register_sgi(m, 0) while REGISTERED(n) returns -EBUSY for
\* every m and leaves n registered.
C3_RegisterSequential ==
    \A num \in SgiNums :
        /\ (IsRegister(num, 0) /\ last.pre_sgi = INVALID_SGI
              /\ num < GICV3_MAX_SGI_TARGETS)
             => (last.reg = <<0>> /\ sgi = num)
        /\ (IsRegister(num, 0) /\ last.pre_sgi # INVALID_SGI)
             => (last.reg = <<-EBUSY>> /\ sgi = last.pre_sgi)

\* a second registration, of another valid number, was refused as busy
C3_Witness ==
    /\ IsRegister(GICV3_MAX_SGI_TARGETS - 1, 0)
    /\ last.pre_sgi = 7
    /\ last.reg = <<-EBUSY>>
    /\ sgi = 7

\* C4: pm_register_sgi(sgi_num, 1) returns 0 and leaves UNREGISTERED, from every
\* state and for every sgi_num, in range or not.
C4_ResetAlways ==
    \A num \in SgiNums :
        IsRegister(num, 1) => (last.reg = <<0>> /\ sgi = INVALID_SGI)

\* a reset with an out-of-range number cleared a registration
C4_Witness ==
    /\ IsRegister(GICV3_MAX_SGI_TARGETS, 1)
    /\ last.pre_sgi = 7
    /\ last.reg = <<0>>
    /\ sgi = INVALID_SGI

\* C5 as stated: pm_register_sgi(sgi_num, 0) with sgi_num >= the maximum fails
\* with -EINVAL and leaves the registration unchanged, and the registered SGI is
\* always none or below the maximum.
C5_Original ==
    /\ \A num \in SgiNums :
         (IsRegister(num, 0) /\ num >= GICV3_MAX_SGI_TARGETS)
           => (last.reg = <<-EINVAL>> /\ sgi = last.pre_sgi)
    /\ (sgi = INVALID_SGI \/ sgi < GICV3_MAX_SGI_TARGETS)

\* C5 amended: pm_register_sgi(sgi_num, 0) with sgi_num >= the maximum, called
\* while no SGI is registered, fails with -EINVAL; called while one is
\* registered it fails with -EBUSY; either way the registration is unchanged,
\* and the registered SGI is always none or below the maximum.
C5_OutOfRange ==
    /\ \A num \in SgiNums :
         (IsRegister(num, 0) /\ num >= GICV3_MAX_SGI_TARGETS)
           => /\ sgi = last.pre_sgi
              /\ last.reg = IF last.pre_sgi = INVALID_SGI
                            THEN <<-EINVAL>> ELSE <<-EBUSY>>
    /\ (sgi = INVALID_SGI \/ sgi < GICV3_MAX_SGI_TARGETS)

\* the first out-of-range number was refused as invalid while unregistered
C5_Witness ==
    /\ IsRegister(GICV3_MAX_SGI_TARGETS, 0)
    /\ last.pre_sgi = INVALID_SGI
    /\ last.reg = <<-EINVAL>>
    /\ sgi = INVALID_SGI

\* C6: when two cores that both entered pm_register_sgi(reset = 0) from
\* UNREGISTERED with valid, different numbers have both returned, exactly one
\* returned 0, the other -EBUSY, and the registered number is the successful
\* caller's.
C6_AtMostOneSuccess ==
    (/\ \A c \in Cores : /\ mc[c].pc = "done"
                         /\ mc[c].reset = 0
                         /\ mc[c].start = INVALID_SGI
                         /\ mc[c].num < GICV3_MAX_SGI_TARGETS
     /\ mc[0].num # mc[1].num)
    => \E c \in Cores :
          /\ mc[c].ret = 0
          /\ mc[1 - c].ret = -EBUSY
          /\ sgi = mc[c].num

\* the last SMC reached pm_system_shutdown(type, subtype)
IsShutdown == IsSmc /\ last.pre_up /\ LastOp = PM_SYSTEM_SHUTDOWN

\* C7: pm_system_shutdown with type set-scope-only sends no frame, returns
\* success and sets the shutdown scope to the subtype whatever it was; at every
\* moment pm_get_shutdown_scope returns the subtype of the latest set-scope-only
\* call (the default before the first), so nothing else changes it.
C7_SetScopeOnly ==
    /\ (IsShutdown /\ last.arg[1] = XPM_SHUTDOWN_TYPE_SETSCOPE_ONLY)
         => /\ last.sent = <<>>
            /\ last.x0 = <<PM_RET_SUCCESS, 0>>
            /\ pm_get_shutdown_scope = last.arg[2]
    /\ pm_get_shutdown_scope = scope_req
    /\ (IsSmc /\ ~(IsShutdown /\ last.arg[1] = XPM_SHUTDOWN_TYPE_SETSCOPE_ONLY))
         => pm_get_shutdown_scope = last.pre_scope

\* a set-scope-only call overwrote a scope set earlier
C7_Witness ==
    /\ IsShutdown /\ last.arg[1] = XPM_SHUTDOWN_TYPE_SETSCOPE_ONLY
    /\ last.arg[2] = 0 /\ last.pre_scope = 1
    /\ pm_shutdown_scope = 0

\* C8: after pm_setup, pm_up is true only if pm_setup returned 0; whenever it
\* returned a nonzero error pm_up is false.
C8_UpOnlyOnSuccess ==
    (phase = "ret" /\ last.op = "setup") => (pm_up => last.x0[1] = 0)

\* the last SMC reached pm_query_data and its feature check succeeded with a
\* version whose low 16 bits are v
IsQuery(v) ==
    /\ IsSmc /\ last.pre_up /\ LastOp = PM_QUERY_DATA
    /\ last.env[1].ok /\ last.env[1].st = PM_RET_SUCCESS
    /\ last.env[1].w[1] % 65536 = v

\* the security flag of the last SMC
LastFlag == IF last.ns THEN NON_SECURE_FLAG ELSE SECURE_FLAG

\* the feature-check frame for query-data
FcFrame ==
    Sent(<<PM_FEATURE_CHECK + 256 * LIBPM_MODULE_ID + 16777216 * LastFlag,
           PM_QUERY_DATA>>, "sync", 1)

\* C9: pm_query_data whose feature check succeeds with low 16 version bits 3
\* returns NOT_SUPPORTED for every query id and sends only the feature-check
\* frame.
C9_Version3NotSupported ==
    IsQuery(3) =>
        /\ last.x0[1] = PM_RET_ERROR_NOTSUPPORTED
        /\ last.sent = <<FcFrame>>

\* version word 0x10003, a name-lookup query id
C9_Witness ==
    /\ IsQuery(3)
    /\ last.env[1].w[1] = 65536 + 3
    /\ last.arg[1] = XPM_QID_CLOCK_GET_NAME
    /\ last.x0[1] = PM_RET_ERROR_NOTSUPPORTED

\* the caller's 8-word buffer as the transport leaves it after the query
QueryBuf == IF last.env[2].ok THEN last.env[2].w ELSE <<0, 0, 0, 0, 0, 0, 0, 0>>

\* C10: pm_query_data with low 16 version bits 2 and a name-lookup query id
\* sends the query asking for 8 reply words, and of the reply [s, a, b, c, ...]
\* in its buffer hands the caller [a, b, c] as data words 0..2 (s is taken out
\* of the data and returned as the status).
C10_V2NameShift ==
    (IsQuery(2) /\ last.arg[1] \in {XPM_QID_CLOCK_GET_NAME,
                                    XPM_QID_PINCTRL_GET_FUNCTION_NAME}) =>
        /\ Len(last.sent) = 2
        /\ last.sent[1] = FcFrame
        /\ last.sent[2] =
             Sent(<<PM_QUERY_DATA + 256 * LIBPM_MODULE_ID + 16777216 * LastFlag,
                    last.arg[1], last.arg[2], last.arg[3], last.arg[4]>>,
                  "sync", 8)
        /\ last.x0 = <<QueryBuf[1], QueryBuf[2]>>
        /\ last.x1 = <<QueryBuf[3], QueryBuf[4]>>

\* a pinctrl function-name query answered [11, 12, 13, 14, ...]
C10_Witness ==
    /\ IsQuery(2)
    /\ last.arg[1] = XPM_QID_PINCTRL_GET_FUNCTION_NAME
    /\ last.env[2] = Good
    /\ last.x0 = <<11, 12>>
    /\ last.x1 = <<13, 14>>

\* the last SMC reached pm_query_data and its feature check succeeded
IsQueryChecked ==
    /\ IsSmc /\ last.pre_up /\ LastOp = PM_QUERY_DATA
    /\ last.env[1].ok /\ last.env[1].st = PM_RET_SUCCESS

\* the version word pm_feature_check hands pm_query_data
VersionWord ==
    BitOr(Shl(PM_API_QUERY_DATA_VERSION, 16), last.env[1].w[1])

\* the query id of the last SMC is a name lookup
IsNameQid ==
    last.arg[1] \in {XPM_QID_CLOCK_GET_NAME, XPM_QID_PINCTRL_GET_FUNCTION_NAME}

\* the query frame of the last SMC, asking for count reply words
QueryFrame(count) ==
    Sent(<<PM_QUERY_DATA + 256 * LIBPM_MODULE_ID + 16777216 * LastFlag,
           last.arg[1], last.arg[2], last.arg[3], last.arg[4]>>, "sync", count)

\* the caller's zeroed 8-word buffer after a query asking for 4 reply words
QueryBuf4 ==
    IF last.env[2].ok
    THEN [i \in 1..8 |-> IF i <= 4 THEN last.env[2].w[i] ELSE 0]
    ELSE <<0, 0, 0, 0, 0, 0, 0, 0>>

\* the 8-word request was sent and the caller got the shifted reply
ShiftedOutcome ==
    /\ last.sent = <<FcFrame, QueryFrame(8)>>
    /\ last.x0 = <<QueryBuf[1], QueryBuf[2]>>
    /\ last.x1 = <<QueryBuf[3], QueryBuf[4]>>

\* the 4-word request was sent, its status returned and its reply words handed
\* to the caller as they came
PlainOutcome ==
    /\ last.sent = <<FcFrame, QueryFrame(4)>>
    /\ last.x0 = <<last.env[2].st, QueryBuf4[1]>>
    /\ last.x1 = <<QueryBuf4[2], QueryBuf4[3]>>

\* no query was sent and the call was refused as not supported
RetiredOutcome ==
    /\ last.sent = <<FcFrame>>
    /\ last.x0[1] = PM_RET_ERROR_NOTSUPPORTED

\* C11 as stated: when the feature check yields the version word 0x00020000, a
\* name-lookup query is sent asking for 8 reply words and its reply is shifted.
C11_Original ==
    (IsQueryChecked /\ VersionWord = 131072 /\ IsNameQid) => ShiftedOutcome

\* C11 amended: the version word 0x00020000 has 0 in its low 16 bits, so a
\* name-lookup query is sent asking for 4 reply words and its reply is not
\* shifted; the 8-word request and the shift happen for a word whose low 16 bits
\* are 2, such as 0x00020002.
C11_VersionWordLowHalf ==
    /\ (IsQueryChecked /\ VersionWord = 131072 /\ IsNameQid) => PlainOutcome
    /\ (IsQueryChecked /\ VersionWord = 131072 + 2 /\ IsNameQid)
         => ShiftedOutcome

\* a clock-name query under the version word 0x00020000 came back unshifted
C11_Witness ==
    /\ IsQueryChecked /\ VersionWord = 131072
    /\ last.arg[1] = XPM_QID_CLOCK_GET_NAME
    /\ last.env[2] = Good
    /\ last.sent[2].count = 4
    /\ last.x0 = <<PM_RET_SUCCESS, 11>>
    /\ last.x1 = <<12, 13>>

\* C12: after a successful feature check every low-16-bit version and query id
\* falls in exactly one class: version 3 is refused without a query; version 2
\* with a name-lookup id sends the 8-word request and shifts; everything else
\* sends the 4-word request, returns its status and hands over its reply words
\* unmodified.
C12_ClassificationTotal ==
    IsQueryChecked =>
        LET v == last.env[1].w[1] % 65536
        IN  /\ v = 3 => RetiredOutcome
            /\ (v = 2 /\ IsNameQid) => ShiftedOutcome
            /\ (v # 3 /\ ~(v = 2 /\ IsNameQid)) => PlainOutcome
            /\ Cardinality({k \in 1..3 :
                   \/ k = 1 /\ RetiredOutcome
                   \/ k = 2 /\ ShiftedOutcome
                   \/ k = 3 /\ PlainOutcome}) = 1

\* version 4, above every version the code names, with a name-lookup id
C12_Witness ==
    /\ IsQueryChecked
    /\ last.env[1].w[1] = MaxFwVersion
    /\ last.arg[1] = XPM_QID_PINCTRL_GET_FUNCTION_NAME
    /\ last.env[2] = Bad
    /\ last.x0 = <<PM_RET_ERROR_ARGS, 11>>
    /\ last.x1 = <<12, 13>>

\* the last SMC reached pm_feature_check(api_id, &version, flag)
IsFeatureCheck == IsSmc /\ last.pre_up /\ LastOp = PM_FEATURE_CHECK

\* the module-id field, bits 8..15, of the api id of the last feature check
FcModule == (last.arg[1] \div 256) % 256

\* the version the handler itself supports for the api id, in the high half
FcBase ==
    IF last.arg[1] \in {PM_GET_CALLBACK_DATA, PM_GET_TRUSTZONE_VERSION,
                        PM_QUERY_DATA}
    THEN PM_API_QUERY_DATA_VERSION * 65536 ELSE PM_API_BASE_VERSION * 65536

LastReply == last.env[Len(last.sent)]

\* C14: whenever the blocking send of pm_query_data or pm_feature_check fails
\* in the transport, the function returns exactly the transport's error; for
\* pm_query_data this covers the 4-word and the 8-word request.
C14_TransportErrorVerbatim ==
    (/\ IsSmc /\ last.pre_up
     /\ LastOp \in {PM_QUERY_DATA, PM_FEATURE_CHECK}
     /\ last.sent # <<>>
     /\ ~LastReply.ok)
    => last.api = <<LastReply.st>>

\* C15: a set-SGI ioctl with reset = 0 while an SGI is registered is answered
\* with a status of its own, not the PM_RET_ERROR_ARGS that answers an
\* out-of-range SGI number.
C15_BusyDistinct ==
    \A num \in SgiNums :
        /\ (IsRegister(num, 0) /\ last.pre_sgi = INVALID_SGI
              /\ num >= GICV3_MAX_SGI_TARGETS)
             => last.x0[1] = PM_RET_ERROR_ARGS
        /\ (IsRegister(num, 0) /\ last.pre_sgi # INVALID_SGI)
             => last.x0[1] \notin {PM_RET_SUCCESS, PM_RET_ERROR_ARGS}

\* the last SMC reached pm_api_ioctl
IsIoctl == IsSmc /\ last.pre_up /\ LastOp = PM_IOCTL

\* the ioctl ids pm_api_ioctl has a case for
KnownIoctls ==
    {IOCTL_SET_PLL_FRAC_MODE, IOCTL_GET_PLL_FRAC_MODE, IOCTL_SET_PLL_FRAC_DATA,
     IOCTL_GET_PLL_FRAC_DATA, IOCTL_SET_SGI}

\* C16: pm_api_ioctl with the set-SGI id sends no frame, whatever its arguments
\* and the registration; with an id outside the five it knows it returns
\* PM_RET_ERROR_NOTSUPPORTED, sends no frame, does not call pm_register_sgi and
\* leaves the registration as it was.
C16_IoctlLocal ==
    /\ (IsIoctl /\ last.arg[2] = IOCTL_SET_SGI) => last.sent = <<>>
    /\ (IsIoctl /\ last.arg[2] \notin KnownIoctls)
         => /\ last.x0[1] = PM_RET_ERROR_NOTSUPPORTED
            /\ last.sent = <<>>
            /\ last.reg = NoCall
            /\ sgi = last.pre_sgi

\* the id after IOCTL_SET_SGI was refused while an SGI was registered
C16_Witness ==
    /\ IsIoctl /\ last.arg[2] = IOCTL_SET_SGI + 1
    /\ last.pre_sgi = 7 /\ sgi = 7
    /\ last.env[1] = Good
    /\ last.x0[1] = PM_RET_ERROR_NOTSUPPORTED
    /\ last.sent = <<>>

\* what the receiver of a frame reads in word 0: the opcode in bits 0..7, the
\* module id in bits 8..15, the flag in bit 24
OpcodeOf(word) == word % 256
ModuleOf(word) == (word \div 256) % 256
FlagOf(word) == (word \div 16777216) % 2

\* the last operation was pm_handle_eemi_call
IsEemi == phase = "ret" /\ last.op = "eemi"

\* C17: word 0 of the frame pm_handle_eemi_call sends carries LIBPM_MODULE_ID
\* when the module-id field of x0 is 0 and that field unchanged otherwise; its
\* low byte is the low byte of x0 and its bit 24 is the flag.
C17_EemiModuleDefault ==
    IsEemi =>
        LET word == last.sent[1].pl[1]
            field == (last.fid \div 256) % 256
        IN  /\ Len(last.sent) = 1
            /\ ModuleOf(word) = IF field = 0 THEN LIBPM_MODULE_ID ELSE field
            /\ OpcodeOf(word) = last.fid % 256
            /\ FlagOf(word) = LastFlag

\* a non-secure feature-check word without a module id, with bits set above
\* the field, went out under the LIBPM module
C17_Witness ==
    /\ IsEemi
    /\ last.fid = 65536 + PM_FEATURE_CHECK
    /\ last.ns
    /\ last.sent[1].pl[1] = 16777216 + 256 * LIBPM_MODULE_ID + PM_FEATURE_CHECK

\* the last operation was PM_PACK_PAYLOAD6
IsPack == phase = "ret" /\ last.op = "pack"

\* C18: for every opcode and module id in 0..255 and flag in {0, 1}, word 0 of
\* the packed frame decodes to the same opcode, module id and flag, has no
\* other bit set, and words 1..5 are the arguments in order.
C18_PackRoundTrip ==
    IsPack =>
        LET word == last.api[1]
        IN  /\ OpcodeOf(word) = last.fid
            /\ ModuleOf(word) = last.arg[1]
            /\ FlagOf(word) = last.arg[2]
            /\ word = OpcodeOf(word) + 256 * ModuleOf(word)
                        + 16777216 * FlagOf(word)
            /\ Len(last.api) = 6
            /\ \A i \in 1..5 : last.api[i + 1] = PackArgs[i]

\* the largest opcode and module id, non-secure: word 0 is 0x0100FFFF
C18_Witness ==
    /\ IsPack
    /\ last.fid = BYTE_MASK /\ last.arg[1] = BYTE_MASK
    /\ last.arg[2] = NON_SECURE_FLAG
    /\ last.api[1] = 16777216 + 65535

\* the last operation was ipi_fiq_handler; last.arg is the payload it read
IsFiq == phase = "ret" /\ last.op = "fiq"

\* the writes of the last interrupt handler to ICC_ASGI1R_EL1, in order
AsgiWrites == SelectSeq(last.ev, LAMBDA e : e.k = "asgi1r")

\* the EL3 SGIs the last interrupt handler raised, in order
El3Sgis == SelectSeq(last.ev, LAMBDA e : e.k = "el3_sgi")

\* what notify_os writes for the registration and the core of the last
\* interrupt: the core's index plus one in the low bits, the SGI from bit 24
RegisteredSgiRaised ==
    IF last.pre_sgi # INVALID_SGI
    THEN AsgiWrites = <<Ev("asgi1r", (last.cpu + 1) + 16777216 * last.pre_sgi, 0)>>
    ELSE AsgiWrites = <<>>

\* C19: on a payload whose word 0 is PM_INIT_SUSPEND_CB, ipi_fiq_handler raises
\* the registered SGI, with the handling core's index plus one as the target,
\* if and only if an SGI is registered, and raises no other SGI.
C19_SuspendInitCallback ==
    (IsFiq /\ last.arg[1] = PM_INIT_SUSPEND_CB) =>
        /\ RegisteredSgiRaised
        /\ El3Sgis = <<>>
        /\ sgi = last.pre_sgi

\* SGI 7 registered, payload [30, 0, 0, 0] taken on core 1: SGI 7, target 2
C19_Witness ==
    /\ IsFiq /\ last.arg = <<PM_INIT_SUSPEND_CB, 0, 0, 0>>
    /\ last.pre_sgi = 7 /\ last.cpu = 1
    /\ AsgiWrites = <<Ev("asgi1r", 2 + 16777216 * 7, 0)>>

\* bit i of the core mask is set
MaskBit(mask, i) == (mask \div Pow2(i)) % 2 = 1

\* C20: on a PM_NOTIFY_CB payload whose word 2 is the forced-idle event,
\* ipi_fiq_handler raises VERSAL_CPU_IDLE_SGI once on each core i below
\* PLATFORM_CORE_COUNT whose bit i is set in word 1 and on no other core, then
\* clears the mailbox interrupt, and does not raise the registered SGI; on any
\* other event it raises the registered SGI iff one is registered and no idle
\* SGI.
C20_ForcedIdleNotify ==
    (IsFiq /\ last.arg[1] = PM_NOTIFY_CB) =>
        IF last.arg[3] = EVENT_CPU_IDLE_FORCE_PWRDWN_SUBSYS
        THEN /\ \A i \in 1..Len(El3Sgis) :
                   /\ El3Sgis[i].a = VERSAL_CPU_IDLE_SGI
                   /\ El3Sgis[i].b \in Cores
                   /\ MaskBit(last.arg[2], El3Sgis[i].b)
                   /\ \A j \in 1..Len(El3Sgis) :
                        El3Sgis[j].b = El3Sgis[i].b => j = i
             /\ \A c \in Cores :
                   MaskBit(last.arg[2], c)
                     => \E i \in 1..Len(El3Sgis) : El3Sgis[i].b = c
             /\ AsgiWrites = <<>>
             /\ \E k \in 1..Len(last.ev) :
                   /\ last.ev[k].k = "irq_clear"
                   /\ \A i \in 1..Len(last.ev) :
                        /\ last.ev[i].k = "el3_sgi" => i < k
                        /\ last.ev[i].k = "irq_clear" => i = k
             /\ ~ipi_irq
        ELSE /\ RegisteredSgiRaised
             /\ El3Sgis = <<>>

\* mask 0b101 with two cores and SGI 7 registered: the idle SGI goes to core 0
\* alone
C20_Witness ==
    /\ IsFiq /\ last.arg[1] = PM_NOTIFY_CB
    /\ last.arg[3] = EVENT_CPU_IDLE_FORCE_PWRDWN_SUBSYS
    /\ last.arg[2] = 1 + Pow2(PLATFORM_CORE_COUNT)
    /\ last.pre_sgi = 7
    /\ El3Sgis = <<Ev("el3_sgi", VERSAL_CPU_IDLE_SGI, 0)>>
    /\ ~ipi_irq

\* the positions in the steps of the last interrupt handler of the steps of
\* kind k
StepsOf(k) == {i \in 1..Len(last.ev) : last.ev[i].k = k}

\* C21: on every run of ipi_fiq_handler, whatever the payload, the interrupt is
\* acknowledged before the payload is read, and end-of-interrupt is signalled
\* once, as the last step, after every SGI raise and mailbox-interrupt clear; a
\* payload that is neither PM_INIT_SUSPEND_CB nor PM_NOTIFY_CB gets the mailbox
\* interrupt cleared and no SGI raised.
C21_HandlerOrdering ==
    IsFiq =>
        /\ StepsOf("ack") = {1}
        /\ StepsOf("read") = {2}
        /\ last.ev[2].a = last.arg[1]
        /\ StepsOf("eoi") = {Len(last.ev)}
        /\ last.arg[1] \notin {PM_INIT_SUSPEND_CB, PM_NOTIFY_CB}
             => /\ Cardinality(StepsOf("irq_clear")) = 1
                /\ StepsOf("asgi1r") = {}
                /\ StepsOf("el3_sgi") = {}
                /\ ~ipi_irq

\* an unknown payload, with SGI 7 registered: acknowledge, read, clear, end
C21_Witness ==
    /\ IsFiq /\ last.arg[1] = PM_INIT_SUSPEND_CB + 1
    /\ last.pre_sgi = 7
    /\ last.ev = <<Ev("ack", 0, 0), Ev("read", PM_INIT_SUSPEND_CB + 1, 0),
                   Ev("irq_clear", 0, 0), Ev("eoi", 0, 0)>>

\* C25: no run of ipi_fiq_handler, whatever the payload, changes the SGI
\* registration, the shutdown scope or the service-up flag; the registration
\* changes only in an SMC that called pm_register_sgi, the scope only in a
\* set-scope-only pm_system_shutdown, the flag only in pm_setup.
C25_HandlerReadOnly ==
    /\ IsFiq => /\ sgi = last.pre_sgi
                /\ pm_shutdown_scope = last.pre_scope
                /\ pm_up = last.pre_up
    /\ (phase = "ret" /\ sgi # last.pre_sgi)
         => (IsSmc /\ last.reg = <<0>>)
    /\ (phase = "ret" /\ pm_shutdown_scope # last.pre_scope)
         => (IsShutdown /\ last.arg[1] = XPM_SHUTDOWN_TYPE_SETSCOPE_ONLY)
    /\ (phase = "ret" /\ pm_up # last.pre_up) => last.op = "setup"

\* a suspend-init callback notified the OS on SGI 7 after the scope was set to
\* 0, and left both as they were
C25_Witness ==
    /\ IsFiq /\ last.arg[1] = PM_INIT_SUSPEND_CB
    /\ AsgiWrites # <<>>
    /\ last.pre_sgi = 7 /\ sgi = 7
    /\ last.pre_scope = 0 /\ pm_shutdown_scope = 0
    /\ pm_up

\* the last SMC was served by the running service and carried opcode op
IsServed(op) == IsSmc /\ last.pre_up /\ LastOp = op

\* C22: a self-suspend SMC with node 3, latency 0, state 1 and address 0x1000
\* sends one frame, blocking, whose word 0 is the SELF_SUSPEND opcode with the
\* primary module id and whose words 1..5 are 3, 0, 1, 0x1000, 0 (word 1 being
\* the node id the caller passed), and returns the status of the reply.
C22_SelfSuspendFrame ==
    (IsServed(PM_SELF_SUSPEND) /\ last.arg = <<3, 0, 1, 4096>>)
        => /\ last.sent = <<Sent(<<PackWord0(LIBPM_MODULE_ID, LastFlag,
                                             PM_SELF_SUSPEND),
                                   3, 0, 1, 4096, 0>>, "sync", 0)>>
           /\ last.x0[1] = last.env[1].st

\* C26: for every opcode of the switch whose API function returns a status,
\* the low 32 bits of x0 are that status, so that a failing API function is
\* never reported as PM_RET_SUCCESS.
C26_StatusPropagated ==
    (IsSmc /\ last.pre_up /\ LastOp \in KnownOps /\ last.api # <<>>)
        => last.x0[1] = last.api[1]

\* the acknowledge argument of the last SMC as the API function receives it
LastAck ==
    IF LastOp = PM_REQ_WAKEUP THEN last.arg[4] % 256 ELSE last.arg[2] % 256

\* C27: request-suspend, force-powerdown and request-wakeup send their frame
\* blocking exactly when the acknowledge argument is the blocking value, and
\* fire-and-forget otherwise.
C27_AckSelectsMode ==
    (IsSmc /\ last.pre_up
        /\ LastOp \in {PM_REQ_SUSPEND, PM_FORCE_POWERDOWN, PM_REQ_WAKEUP})
        => /\ Len(last.sent) = 1
           /\ last.sent[1].mode = "sync" <=> LastAck = IPI_BLOCKING

\* C28: pm_abort_suspend sends its frame without waiting for a reply.
C28_AbortNonBlocking ==
    IsServed(PM_ABORT_SUSPEND)
        => /\ Len(last.sent) = 1
           /\ last.sent[1].mode # "sync"

\* C29: pm_setup returns nonzero whenever pm_ipi_init failed, and returns 0
\* only when pm_ipi_init, both interrupt registrations and the notifier
\* registration all succeeded.
C29_SetupReportsInitFailure ==
    (phase = "ret" /\ last.op = "setup")
        => /\ last.arg[1] < 0 => last.x0[1] # 0
           /\ last.x0[1] = 0
                => /\ last.arg[1] >= 0 /\ last.arg[2] = 0 /\ last.arg[3] = 0
                   /\ last.env[1].ok /\ last.env[1].st = PM_RET_SUCCESS

\* C30: when ipi_fiq_handler returns, it has either cleared the mailbox
\* interrupt or raised the registered SGI, so the same payload cannot be
\* delivered to it again.
C30_CallbackServiced ==
    IsFiq => \/ ~ipi_irq
             \/ /\ last.pre_sgi # INVALID_SGI
                /\ RegisteredSgiRaised

\* the SMC core c is in is one whose API function sends blocking
IsBlockingSmc(c) ==
    \/ mc[c].fid \in {PM_SELF_SUSPEND, PM_REQ_WAKEUP}
    \/ /\ mc[c].fid \in {PM_REQ_SUSPEND, PM_FORCE_POWERDOWN}
       /\ mc[c].arg[2] = IPI_BLOCKING

C24_ReplyBeforeClear ==
    \A c \in Cores :
        (mc[c].pc = "wait" /\ mc[c].reply # <<>>) => ipi_irq

\* the return registers the last SMC would have produced had the stack held
\* j where the handler's locals are not initialised, everything else equal
RegistersWith(j) ==
    LET r == pm_smc_handler(last.fid, <<last.arg[1], last.arg[2]>>,
                            <<last.arg[3], last.arg[4]>>, last.ns, last.cpu,
                            last.env, j, last.pre_up, last.pre_sgi,
                            last.pre_scope, last.pre_irq, callb)
    IN  <<r.x0, r.x1>>

\* C31: for every opcode of the switch and every outcome of its API function,
\* the halves of the return registers are the status, output words the
\* function wrote or values the handler initialised; none is a local that was
\* never written, so the registers do not depend on what the stack held.
C31_RegistersDefined ==
    (IsSmc /\ last.pre_up /\ LastOp \in KnownOps)
        => \A j \in JunkWords : RegistersWith(j) = <<last.x0, last.x1>>

====
